---------------------------- MODULE Spec2Model ----------------------------
(***************************************************************************)
(* Model of the drand client library (drand_core): the beacon verifier     *)
(* (beacon.rs), the BLS12-381 primitive it calls (bls_signatures.rs), the  *)
(* chain descriptor and options (chain.rs) and the blocking HTTP client    *)
(* with its chain-info cache (http_client.rs).                             *)
(*                                                                         *)
(* Cryptography is symbolic: a group element is a scalar multiple of a     *)
(* base (a generator or a hash-to-curve image), SHA-256 is an injective    *)
(* constructor, and a pairing equality holds exactly when the bases agree  *)
(* pairwise and the scalar products agree.                                 *)
(***************************************************************************)
EXTENDS Integers, Sequences, FiniteSets, TLC

(***************************************************************************)
(* Bounds of the model.                                                    *)
(***************************************************************************)
NumKeys == 2
MaxRound == 2

(***************************************************************************)
(* Strings that the code inspects with str::contains are sequences of      *)
(* characters, so that contains is a real substring search.                *)
(***************************************************************************)
\* "pedersen-bls-chained"
PedersenBlsChained ==
    <<"p","e","d","e","r","s","e","n","-","b","l","s","-","c","h","a","i","n","e","d">>
\* "pedersen-bls-unchained"
PedersenBlsUnchained ==
    <<"p","e","d","e","r","s","e","n","-","b","l","s","-","u","n","c","h","a","i","n","e","d">>
\* "bls-unchained-on-g1"
BlsUnchainedOnG1 ==
    <<"b","l","s","-","u","n","c","h","a","i","n","e","d","-","o","n","-","g","1">>
\* "bls-unchained-g1-rfc9380"
BlsUnchainedG1Rfc9380 ==
    <<"b","l","s","-","u","n","c","h","a","i","n","e","d","-","g","1","-","r","f","c","9","3","8","0">>
\* "bls-unchained-rfc9380": an RFC 9380 scheme id without "g1"
BlsUnchainedRfc9380 ==
    <<"b","l","s","-","u","n","c","h","a","i","n","e","d","-","r","f","c","9","3","8","0">>
StrUnchained ==
    <<"u","n","c","h","a","i","n","e","d">>
StrG1 ==
    <<"g","1">>
StrRfc9380 ==
    <<"r","f","c","9","3","8","0">>

SchemeIds ==
    {PedersenBlsChained, PedersenBlsUnchained, BlsUnchainedOnG1,
     BlsUnchainedG1Rfc9380, BlsUnchainedRfc9380}

\* str::contains
Contains(s, pat) ==
    \E i \in 1..(Len(s) - Len(pat) + 1) : SubSeq(s, i, i + Len(pat) - 1) = pat

(***************************************************************************)
(* Byte strings.  A byte string has a length, an encoding class (the       *)
(* compressed encoding of a G1 point, of a G2 point, or bytes that decode  *)
(* to no point) and the element it decodes to.                             *)
(***************************************************************************)
NoElement == [base |-> [kind |-> "none"], scalar |-> 0]

RawBytes(l, id) == [len |-> l, enc |-> "raw", val |-> [base |-> [kind |-> "raw", id |-> id], scalar |-> 0]]

EmptyBytes == RawBytes(0, "")

GroupLen(grp) == IF grp = "G1" THEN 48 ELSE 96

PointBytes(grp, el) == [len |-> GroupLen(grp), enc |-> grp, val |-> el]

\* G1Affine::generator / G2Affine::generator
Generator(grp) == [base |-> [kind |-> "gen", grp |-> grp], scalar |-> 1]

\* MapToCurveBasedHasher::hash with the domain separation tag dst
HashToCurve(grp, dst, msg) ==
    [base |-> [kind |-> "H", grp |-> grp, dst |-> dst, msg |-> msg], scalar |-> 1]

\* scalar multiplication by a secret key
Mul(k, el) == [base |-> el.base, scalar |-> k * el.scalar]

\* The public key of secret key k, placed on grp.
PublicKeyBytes(grp, k) == PointBytes(grp, Mul(k, Generator(grp)))

\* The signature of secret key k over msg, hashed to grp under dst.
SignatureBytes(grp, k, dst, msg) == PointBytes(grp, Mul(k, HashToCurve(grp, dst, msg)))

\* Sha256::finalize over a byte string or a concatenation: injective
Sha256(x) == [len |-> 32, enc |-> "sha256", val |-> x]

\* u64::to_be_bytes appended to a prefix
Concat(prefix, round) ==
    [len |-> prefix.len + 8, enc |-> "concat", val |-> [prev |-> prefix, round |-> round]]

(***************************************************************************)
(* bls_signatures.rs                                                       *)
(***************************************************************************)
G1_DOMAIN == "BLS_SIG_BLS12381G1_XMD:SHA-256_SSWU_RO_NUL_"

G2_DOMAIN == "BLS_SIG_BLS12381G2_XMD:SHA-256_SSWU_RO_NUL_"

OkBool(v) == [kind |-> "Ok", value |-> v]

ErrBool == [kind |-> "Err", value |-> FALSE]

PanicBool == [kind |-> "Panic", value |-> FALSE]

g1_from_variable(data) ==
    IF data.len # 48 THEN [ok |-> FALSE, el |-> NoElement]
    ELSE IF data.enc = "G1" THEN [ok |-> TRUE, el |-> data.val]
    ELSE [ok |-> FALSE, el |-> NoElement]

g2_from_variable(data) ==
    IF data.len # 96 THEN [ok |-> FALSE, el |-> NoElement]
    ELSE IF data.enc = "G2" THEN [ok |-> TRUE, el |-> data.val]
    ELSE [ok |-> FALSE, el |-> NoElement]

\* e(p, q) == e(r, s), with p, r in G1 and q, s in G2
fast_pairing_equality(p, q, r, s) ==
    /\ p.base = r.base
    /\ q.base = s.base
    /\ p.scalar * q.scalar = r.scalar * s.scalar

verify_g2_on_g1(dst, signature, hash, public_key) ==
    LET hash_on_curve == HashToCurve("G2", dst, hash)
        sigma == g2_from_variable(signature)
        r == g1_from_variable(public_key)
    IN  IF ~sigma.ok THEN ErrBool
        ELSE IF ~r.ok THEN ErrBool
        ELSE OkBool(fast_pairing_equality(Generator("G1"), sigma.el, r.el, hash_on_curve))

verify_g1_on_g2(dst, signature, hash, public_key) ==
    LET hash_on_curve == HashToCurve("G1", dst, hash)
        sigma == g1_from_variable(signature)
        s == g2_from_variable(public_key)
    IN  IF ~sigma.ok THEN ErrBool
        ELSE IF ~s.ok THEN ErrBool
        ELSE OkBool(fast_pairing_equality(sigma.el, Generator("G2"), hash_on_curve, s.el))

bls_signatures_verify(dst, signature, hash, public_key) ==
    IF signature.len = 48
    THEN verify_g1_on_g2(dst, signature, hash, public_key)
    ELSE verify_g2_on_g1(dst, signature, hash, public_key)

(***************************************************************************)
(* chain.rs: ChainInfo                                                     *)
(***************************************************************************)
ChainInfo_is_rfc9380(info) == Contains(info.scheme_id, StrRfc9380)

ChainInfo_is_unchained(info) == Contains(info.scheme_id, StrUnchained)

(***************************************************************************)
(* beacon.rs: ApiBeacon                                                    *)
(***************************************************************************)
ChainedBeacon(round, randomness, signature, previous_signature) ==
    [tag |-> "ChainedBeacon", round |-> round, randomness |-> randomness,
     signature |-> signature, previous_signature |-> previous_signature]

UnchainedBeacon(round, randomness, signature) ==
    [tag |-> "UnchainedBeacon", round |-> round, randomness |-> randomness,
     signature |-> signature, previous_signature |-> EmptyBytes]

ApiBeacon_is_unchained(b) == b.tag = "UnchainedBeacon"

ApiBeacon_is_g1(b) ==
    IF b.tag = "ChainedBeacon" THEN FALSE ELSE b.signature.len = 48

\* ChainedBeacon::message: clone_from_slice aborts when the lengths differ
ChainedBeacon_message(b) ==
    LET len == IF b.round = 1 THEN 32 ELSE 96
    IN  IF b.previous_signature.len # len
        THEN [kind |-> "Panic", msg |-> Sha256(Concat(EmptyBytes, 0))]
        ELSE [kind |-> "Ok", msg |-> Sha256(Concat(b.previous_signature, b.round))]

UnchainedBeacon_message(b) ==
    [kind |-> "Ok", msg |-> Sha256(Concat(EmptyBytes, b.round))]

ApiBeacon_message(b) ==
    IF b.tag = "ChainedBeacon" THEN ChainedBeacon_message(b) ELSE UnchainedBeacon_message(b)

\* ApiBeacon::dst with the single pre-RFC tag for every chain
ApiBeacon_dst_single_tag(info) == G2_DOMAIN

ApiBeacon_dst(info) ==
    IF ChainInfo_is_rfc9380(info) /\ Contains(info.scheme_id, StrG1)
    THEN G1_DOMAIN
    ELSE G2_DOMAIN

\* the gate without the chained/unchained comparison
SchemeGate_no_chained_check(b, info) ==
    ApiBeacon_is_g1(b) /\ ~Contains(info.scheme_id, StrG1)

\* the gate without the curve-placement comparison
SchemeGate_no_g1_check(b, info) ==
    ApiBeacon_is_unchained(b) # ChainInfo_is_unchained(info)

\* ApiBeacon::verify, lines 82-86: the early return
SchemeGate(b, info) ==
    \/ ApiBeacon_is_unchained(b) # ChainInfo_is_unchained(info)
    \/ (ApiBeacon_is_g1(b) /\ ~Contains(info.scheme_id, StrG1))

\* ApiBeacon::verify returning the disjunction of the two checks
ApiBeacon_verify_either_check(b, info) ==
    IF SchemeGate(b, info) THEN OkBool(FALSE)
    ELSE
      LET m == ApiBeacon_message(b)
      IN  IF m.kind = "Panic" THEN PanicBool
          ELSE
            LET signature_verify ==
                    bls_signatures_verify(ApiBeacon_dst(info), b.signature, m.msg,
                                          info.public_key)
                randomness_verify == Sha256(b.signature) = b.randomness
            IN  IF signature_verify.kind = "Err" THEN ErrBool
                ELSE OkBool(signature_verify.value \/ randomness_verify)

ApiBeacon_verify(b, info) ==
    IF SchemeGate(b, info) THEN OkBool(FALSE)
    ELSE
      LET m == ApiBeacon_message(b)
      IN  IF m.kind = "Panic" THEN PanicBool
          ELSE
            LET signature_verify ==
                    bls_signatures_verify(ApiBeacon_dst(info), b.signature, m.msg,
                                          info.public_key)
                randomness_verify == Sha256(b.signature) = b.randomness
            IN  IF signature_verify.kind = "Err" THEN ErrBool
                ELSE OkBool(signature_verify.value /\ randomness_verify)


(***************************************************************************)
(* chain.rs: ChainInfo values.  group_hash and metadata are carried but    *)
(* never inspected by the library.                                         *)
(***************************************************************************)
ChainInfo(public_key, period, genesis_time, hash, scheme_id) ==
    [public_key |-> public_key, period |-> period, genesis_time |-> genesis_time,
     hash |-> hash, group_hash |-> RawBytes(32, "group"), scheme_id |-> scheme_id,
     metadata |-> [beacon_id |-> "default"]]

(***************************************************************************)
(* Inputs of the verifier: every signature some key can produce over some  *)
(* signing message on either group under either tag, byte strings that     *)
(* decode to no point, and beacons assembled from them with a matching or  *)
(* a foreign randomness.                                                   *)
(***************************************************************************)
Keys == 2..(NumKeys + 1)

Rounds == 1..MaxRound

Groups == {"G1", "G2"}

Domains == {G1_DOMAIN, G2_DOMAIN}

PrevSigs == {RawBytes(96, "prev"), RawBytes(32, "seed"), RawBytes(10, "short")}

SigningMessages ==
    {Sha256(Concat(EmptyBytes, r)) : r \in Rounds}
        \cup {Sha256(Concat(p, r)) : p \in {RawBytes(96, "prev"), RawBytes(32, "seed")},
                                     r \in Rounds}

JunkSignatures == {RawBytes(48, "junk"), RawBytes(96, "junk"), RawBytes(10, "junk")}

Signatures ==
    {SignatureBytes(g, k, d, m) : g \in Groups, k \in Keys, d \in Domains,
                                  m \in SigningMessages}
        \cup JunkSignatures

RandomnessOf(sig) == {Sha256(sig), Sha256(RawBytes(96, "other"))}

VerifyBeacons ==
    UNION {{UnchainedBeacon(r, rnd, sig) : rnd \in RandomnessOf(sig)}
                : r \in Rounds, sig \in Signatures}
        \cup
    UNION {{ChainedBeacon(r, rnd, sig, p) : rnd \in RandomnessOf(sig), p \in PrevSigs}
                : r \in Rounds, sig \in Signatures}

VerifyPublicKeys ==
    {PublicKeyBytes(g, k) : g \in Groups, k \in Keys} \cup {RawBytes(48, "junk")}

VerifyInfos ==
    {ChainInfo(pk, 3, 10, RawBytes(32, "h1"), s) : pk \in VerifyPublicKeys, s \in SchemeIds}

(***************************************************************************)
(* chain.rs: ChainOptions and ChainVerification                            *)
(***************************************************************************)
None == [some |-> FALSE, v |-> EmptyBytes]

Some(x) == [some |-> TRUE, v |-> x]

ChainVerification_verify_hash_only(cv, info) ==
    IF cv.hash.some THEN info.hash = cv.hash.v ELSE TRUE

ChainVerification_verify(cv, info) ==
    LET ok_hash == IF cv.hash.some THEN info.hash = cv.hash.v ELSE TRUE
        ok_public_key ==
            IF cv.public_key.some THEN info.public_key = cv.public_key.v ELSE TRUE
    IN  ok_hash /\ ok_public_key

ChainOptions_verify(opts, info) ==
    ChainVerification_verify(opts.chain_verification, info)

(***************************************************************************)
(* Decimal strings: u64::to_string and str::parse::<u64>.                  *)
(***************************************************************************)
DigitChars == <<"0", "1", "2", "3", "4", "5", "6", "7", "8", "9">>

StrLatest == <<"l", "a", "t", "e", "s", "t">>

RECURSIVE u64_to_string(_)
u64_to_string(n) ==
    IF n < 10 THEN <<DigitChars[n + 1]>>
    ELSE u64_to_string(n \div 10) \o <<DigitChars[(n % 10) + 1]>>

DigitValue(c) == CHOOSE d \in 0..9 : DigitChars[d + 1] = c

IsDigit(c) == \E d \in 0..9 : DigitChars[d + 1] = c

RECURSIVE DigitsValue(_)
DigitsValue(str) ==
    IF Len(str) = 0 THEN 0
    ELSE 10 * DigitsValue(SubSeq(str, 1, Len(str) - 1)) + DigitValue(str[Len(str)])

\* str::parse::<u64>: an optional "+", then one or more digits (the strings
\* parsed here are far below the u64 range)
str_parse_u64(str) ==
    LET digits == IF Len(str) > 0 /\ str[1] = "+" THEN SubSeq(str, 2, Len(str)) ELSE str
    IN  IF Len(digits) = 0 \/ \E i \in 1..Len(digits) : ~IsDigit(digits[i])
        THEN [ok |-> FALSE, n |-> 0]
        ELSE [ok |-> TRUE, n |-> DigitsValue(digits)]

(***************************************************************************)
(* The HTTP layer.  A server answer is a transport failure or a status     *)
(* with a body; ureq's call() turns every status >= 400 into an error.     *)
(***************************************************************************)
NoInfo == ChainInfo(EmptyBytes, 0, 0, EmptyBytes, <<>>)

NoBeacon ==
    [tag |-> "None", round |-> 0, randomness |-> EmptyBytes, signature |-> EmptyBytes,
     previous_signature |-> EmptyBytes]

HttpAnswer(net, status, json_ok, info, beacon) ==
    [net |-> net, status |-> status, json_ok |-> json_ok, info |-> info, beacon |-> beacon]

TransportFailure == HttpAnswer("error", 0, FALSE, NoInfo, NoBeacon)

StatusAnswer(code) == HttpAnswer("ok", code, FALSE, NoInfo, NoBeacon)

MalformedBody == HttpAnswer("ok", 200, FALSE, NoInfo, NoBeacon)

InfoBody(info) == HttpAnswer("ok", 200, TRUE, info, NoBeacon)

BeaconBody(b) == HttpAnswer("ok", 200, TRUE, NoInfo, b)

\* ureq::Request::call
ureq_call(answer) ==
    IF answer.net = "error" THEN [kind |-> "Transport", code |-> 0]
    ELSE IF answer.status >= 400 THEN [kind |-> "Status", code |-> answer.status]
    ELSE [kind |-> "Ok", code |-> answer.status]

(***************************************************************************)
(* What the modelled servers can answer.                                   *)
(***************************************************************************)
HashA == RawBytes(32, "h1")

HashB == RawBytes(32, "h2")

KeyA == PublicKeyBytes("G1", 2)

KeyB == PublicKeyBytes("G1", 3)

\* the period of the unchained test chains, in seconds
Period == 3

\* the genesis time of the test chains, scaled down to a small number of seconds
Genesis == 10

InfoA == ChainInfo(KeyA, Period, Genesis, HashA, PedersenBlsUnchained)

InfoB == ChainInfo(KeyB, Period, Genesis, HashB, PedersenBlsUnchained)

ServerInfos == {InfoA, InfoB}

InfoAnswers ==
    {TransportFailure, StatusAnswer(500), MalformedBody} \cup {InfoBody(i) : i \in ServerInfos}

\* the beacon the network of KeyA publishes for round r
SignedBeacon(r) ==
    LET sig == SignatureBytes("G2", 2, G2_DOMAIN, Sha256(Concat(EmptyBytes, r)))
    IN  UnchainedBeacon(r, Sha256(sig), sig)

\* the rounds callers ask for
ClientRounds == {1, 2}

\* round 1 carrying the signature and randomness of round 2
MislabelledBeacon == [SignedBeacon(2) EXCEPT !.round = 1]

ServerBeacons ==
    {SignedBeacon(r) : r \in ClientRounds} \cup {MislabelledBeacon}

BeaconAnswers ==
    {TransportFailure, StatusAnswer(404), StatusAnswer(500), MalformedBody}
        \cup {BeaconBody(b) : b \in ServerBeacons}

\* A server is a mock that answers every GET info with the same chain info
\* ("fixed"), or one that may answer any request with anything ("any").
Servers ==
    {[mode |-> "any", info |-> NoInfo]} \cup {[mode |-> "fixed", info |-> i] : i \in ServerInfos}

InfoAnswersOf(srv) ==
    IF srv.mode = "fixed" THEN {InfoBody(srv.info)} ELSE InfoAnswers

\* OffsetDateTime::now_utc at the moment latest() reads it
Nows == {Genesis + (r - 1) * Period : r \in ClientRounds}

\* the clock matters to a caller only where latest() reads it (line 176)
NowsAt(s) == IF s.phase = "latest" THEN Nows ELSE {Genesis}

\* no pin, a pinned hash, a pinned public key
ChainVerifications ==
    {[hash |-> None, public_key |-> None], [hash |-> Some(HashA), public_key |-> None],
     [hash |-> None, public_key |-> Some(KeyA)]}

ChainOptions_new(is_beacon_verification, is_cache, chain_verification) ==
    [is_beacon_verification |-> is_beacon_verification, is_cache |-> is_cache,
     chain_verification |-> chain_verification]

ChainOptions_default == ChainOptions_new(TRUE, TRUE, [hash |-> None, public_key |-> None])

(***************************************************************************)
(* http_client.rs: HttpClient, used by two concurrent callers that make    *)
(* at most MaxCalls calls in total.                                        *)
(***************************************************************************)
MaxCalls == 2

Callers == {"a", "b"}

RandomnessBeacon_new(beacon, time) == [beacon |-> beacon, time |-> time]

NoRandomnessBeacon == RandomnessBeacon_new(NoBeacon, 0)

NoneInfo == [some |-> FALSE, v |-> NoInfo]

SomeInfo(info) == [some |-> TRUE, v |-> info]

\* Result<ChainInfo> and Result<RandomnessBeacon>
Ret(kind, err, info, rb) == [kind |-> kind, err |-> err, info |-> info, rb |-> rb]

NoRet == Ret("None", "", NoInfo, NoRandomnessBeacon)

OkInfo(info) == Ret("Ok", "", info, NoRandomnessBeacon)

OkBeacon(rb) == Ret("Ok", "", NoInfo, rb)

Err(e) == Ret("Err", e, NoInfo, NoRandomnessBeacon)

Panic == Ret("Panic", "", NoInfo, NoRandomnessBeacon)

\* a caller outside any call
Idle ==
    [pc |-> "idle", op |-> "", phase |-> "", round |-> <<>>, beacon |-> NoBeacon,
     time |-> 0, ret |-> NoRet]

NoAnswer == HttpAnswer("none", 0, FALSE, NoInfo, NoBeacon)

\* What the step that ended a call observed: where the call stood (pc), the
\* HTTP answer the step received (NoAnswer if none), what chain_info() returned
\* to the call in this step (NoRet if the step was none of chain_info()), the
\* call's locals and the value the call returned.
Returned(pc, s, answer, r) ==
    [op |-> s.op, pc |-> pc, phase |-> s.phase, round |-> s.round, beacon |-> s.beacon,
     answer |-> answer, chain_info |-> r, ret |-> s.ret]

NoReturn == Returned("", Idle, NoAnswer, NoRet)

VARIABLES
    options,            \* HttpClient::options
    cached_chain_info,  \* HttpClient::cached_chain_info
    server,             \* the server behind base_url
    caller,             \* each caller's position in its current call, and its locals
    started,            \* number of calls started
    infoRequests,       \* number of GET info requests sent
    sequentialInfoOk,   \* every call so far was a chain_info() that began while no
                        \* call was in progress and, if it has returned, returned Ok
    last,               \* the call whose return was the last step (else NoReturn)
    vBeacon,            \* the beacon handed to ApiBeacon::verify
    vInfo,              \* the chain info handed to ApiBeacon::verify
    vResult,            \* what that call returned (NoResult before the call)
    vDst,               \* the tag it passed to the BLS primitive ("" if none)
    pIn,                \* the arguments handed to a pure function (NoValue if none)
    pOut,               \* what the function returned (NoValue before the call)
    cmd,                \* the dee command line being run (NoValue if none)
    proc,               \* the dee process: its position, its effects, its exit
    reader,             \* a ResetReader of dee and what its caller has read from it
    mutex,              \* the holder of the Mutex around cached_chain_info, or "free"
    config              \* the configuration file of dee as confy stores it

cvars ==
    <<options, cached_chain_info, server, caller, started, infoRequests, sequentialInfoOk,
      last>>

vvars == <<vBeacon, vInfo, vResult, vDst>>

pvars == <<pIn, pOut>>

\* the variables a call of the client leaves alone
dvars == <<cmd, proc, reader, mutex, config>>

ovars == <<vvars, pvars, dvars>>

vars == <<cvars, ovars>>

NoResult == [kind |-> "None", value |-> FALSE]

NoValue == [kind |-> "None"]

\* no pure function is being applied
PureIdle == pIn = NoValue /\ pOut = NoValue

\* no dee command is being run
ProcessIdle == cmd = NoValue /\ proc = NoValue /\ reader = NoValue /\ mutex = "free"

DeeIdle == ProcessIdle /\ config = NoValue

\* ApiBeacon::verify is not being applied
VerifierIdle ==
    /\ vBeacon = NoBeacon
    /\ vInfo = NoInfo
    /\ vResult = NoResult
    /\ vDst = ""

\* HttpClient::new
ClientNew(opts, srv) ==
    /\ options = opts
    /\ cached_chain_info = NoneInfo
    /\ server = srv
    /\ caller = [t \in Callers |-> Idle]
    /\ started = 0
    /\ infoRequests = 0
    /\ sequentialInfoOk = TRUE
    /\ last = NoReturn

Init ==
    /\ \E v \in BOOLEAN, k \in BOOLEAN, cv \in ChainVerifications, srv \in Servers :
          ClientNew(ChainOptions_new(v, k, cv), srv)
    /\ VerifierIdle
    /\ PureIdle
    /\ DeeIdle

InCall(t) == caller[t].pc # "idle"

\* caller "b" makes its first call after caller "a" has made one
CanStart(t) ==
    /\ caller[t].pc = "idle"
    /\ started < MaxCalls
    /\ t = "b" => started > 0

Done(s, ret) == [s EXCEPT !.pc = "idle", !.ret = ret]

chain_info_no_cache_without_pin_check(opts, answer) ==
    LET response == ureq_call(answer)
    IN  IF response.kind # "Ok" THEN Err("RequestFailed")
        ELSE IF response.code < 400
        THEN IF ~answer.json_ok THEN Err("Parsing") ELSE OkInfo(answer.info)
        ELSE Err("FailedToRetrieveChainInfo")

\* a variant that applies the pinned check only on a client that verifies beacons
chain_info_no_cache_pin_when_verifying(opts, answer) ==
    LET response == ureq_call(answer)
    IN  IF response.kind # "Ok" THEN Err("RequestFailed")
        ELSE IF response.code < 400
        THEN IF ~answer.json_ok THEN Err("Parsing")
             ELSE IF ~opts.is_beacon_verification \/ ChainOptions_verify(opts, answer.info)
             THEN OkInfo(answer.info)
             ELSE Err("InvalidChainInfo")
        ELSE Err("FailedToRetrieveChainInfo")

\* HttpClient::chain_info_no_cache, lines 72-90: from the answer to the result
chain_info_no_cache(opts, answer) ==
    LET response == ureq_call(answer)
    IN  IF response.kind # "Ok" THEN Err("RequestFailed")
        ELSE IF response.code < 400
        THEN IF ~answer.json_ok THEN Err("Parsing")
             ELSE IF ChainOptions_verify(opts, answer.info) THEN OkInfo(answer.info)
             ELSE Err("InvalidChainInfo")
        ELSE Err("FailedToRetrieveChainInfo")

CacheHit_never(opts, cache) == FALSE

\* chain_info, lines 155-159: the cache is enabled and holds a chain info
CacheHit(opts, cache) == opts.is_cache /\ cache.some

CacheAfter_never_stored(opts, cache, r) == cache

CacheAfter_stores_every_result(opts, cache, r) ==
    IF opts.is_cache THEN SomeInfo(r.info) ELSE cache

\* a variant that stores a fetched info whether or not the cache is enabled
CacheAfter_without_is_cache(opts, cache, r) ==
    IF r.kind = "Ok" THEN SomeInfo(r.info) ELSE cache

\* chain_info, lines 160-164: the cache once chain_info_no_cache returned r
CacheAfter(opts, cache, r) ==
    IF r.kind = "Ok" /\ opts.is_cache THEN SomeInfo(r.info) ELSE cache

verify_beacon_without_round_check(s, info) ==
    LET rb == RandomnessBeacon_new(s.beacon, s.time)
        v == ApiBeacon_verify(s.beacon, info)
    IN  IF v.kind = "Panic" THEN Panic
        ELSE IF v.kind = "Err" THEN Err("Bls")
        ELSE IF ~v.value THEN Err("Validation")
        ELSE OkBeacon(rb)

\* HttpClient::verify_beacon, lines 109-122, once chain_info() has returned info
verify_beacon(s, info) ==
    LET rb == RandomnessBeacon_new(s.beacon, s.time)
        v == ApiBeacon_verify(s.beacon, info)
        round == str_parse_u64(s.round)
    IN  IF v.kind = "Panic" THEN Panic
        ELSE IF v.kind = "Err" THEN Err("Bls")
        ELSE IF ~v.value THEN Err("Validation")
        ELSE IF s.round = StrLatest THEN OkBeacon(rb)
        ELSE IF ~round.ok THEN Err("Parsing")
        ELSE IF s.beacon.round # round.n THEN Err("RoundMismatch")
        ELSE OkBeacon(rb)

LatestRound_counting_from_zero(info, now) == (now - info.genesis_time) \div info.period

\* RandomnessBeaconTime::from_datetime(info, now).round, for now >= genesis
LatestRound(info, now) == ((now - info.genesis_time) \div info.period) + 1

get_with_string_fetch_404_as_failure(answer) ==
    LET response == ureq_call(answer)
    IN  IF response.kind # "Ok" THEN Err("RequestFailed")
        ELSE IF ~answer.json_ok THEN Err("Parsing")
        ELSE OkBeacon(RandomnessBeacon_new(answer.beacon, 0))

\* HttpClient::get_with_string, lines 126-137: from the answer to the beacon
get_with_string_fetch(answer) ==
    LET response == ureq_call(answer)
    IN  IF response.kind = "Status" /\ response.code = 404 THEN Err("NotFound")
        ELSE IF response.kind # "Ok" THEN Err("RequestFailed")
        ELSE IF ~answer.json_ok THEN Err("Parsing")
        ELSE OkBeacon(RandomnessBeacon_new(answer.beacon, 0))

VerificationSkipped_never(opts) == FALSE

\* HttpClient::verify_beacon, lines 105-107: the beacon is returned as it is
VerificationSkipped(opts) == ~opts.is_beacon_verification

\* The caller's code after chain_info() returned r: the caller of chain_info()
\* (phase "top"), latest() line 176 (phase "latest"), get_with_string line 139
\* (phase "time") or verify_beacon line 109 (phase "verify").
AfterChainInfo(s, r, now) ==
    CASE s.phase = "top" -> Done(s, r)
      [] s.phase = "latest" ->
            IF r.kind # "Ok" THEN Done(s, r)
            ELSE [s EXCEPT !.pc = "get_with_string",
                           !.round = u64_to_string(LatestRound(r.info, now))]
      [] s.phase = "time" ->
            IF r.kind # "Ok" THEN Done(s, r)
            ELSE LET unix_time == r.info.genesis_time + s.beacon.round * r.info.period
                     t == [s EXCEPT !.time = unix_time]
                 IN  IF VerificationSkipped(options)
                     THEN Done(t, OkBeacon(RandomnessBeacon_new(t.beacon, t.time)))
                     ELSE [t EXCEPT !.pc = "chain_info", !.phase = "verify"]
      [] s.phase = "verify" ->
            IF r.kind # "Ok" THEN Done(s, r)
            ELSE Done(s, verify_beacon(s, r.info))

\* bookkeeping of a step of caller t that leaves it in state s, after the
\* answer and the result r of chain_info() the step saw
Step(t, s, answer, r) ==
    IF s.pc = "idle"
    THEN /\ caller' = [caller EXCEPT ![t] = Idle]
         /\ last' = Returned(caller[t].pc, s, answer, r)
         /\ sequentialInfoOk' = (sequentialInfoOk /\ s.ret.kind = "Ok")
    ELSE /\ caller' = [caller EXCEPT ![t] = s]
         /\ last' = NoReturn
         /\ UNCHANGED sequentialInfoOk

\* bookkeeping of the step with which caller t enters a call
Start(t, s) ==
    /\ caller' = [caller EXCEPT ![t] = s]
    /\ started' = started + 1
    /\ sequentialInfoOk' =
          (sequentialInfoOk /\ s.op = "chain_info" /\ \A u \in Callers : ~InCall(u))
    /\ last' = NoReturn
    /\ UNCHANGED <<options, cached_chain_info, server, infoRequests, ovars>>

\* a caller enters HttpClient::chain_info
StartChainInfo(t) ==
    /\ CanStart(t)
    /\ Start(t, [Idle EXCEPT !.pc = "chain_info", !.op = "chain_info", !.phase = "top"])

\* a caller enters HttpClient::get and the beacon request goes out
StartGet(t) ==
    /\ CanStart(t)
    /\ \E r \in ClientRounds :
          Start(t, [Idle EXCEPT !.pc = "get_with_string", !.op = "get",
                                !.round = u64_to_string(r)])

\* a caller enters HttpClient::latest (feature "time")
StartLatest(t) ==
    /\ CanStart(t)
    /\ Start(t, IF options.is_beacon_verification
                THEN [Idle EXCEPT !.pc = "chain_info", !.op = "latest", !.phase = "latest"]
                ELSE [Idle EXCEPT !.pc = "get_with_string", !.op = "latest",
                                  !.round = StrLatest])

\* get_with_string: the answer to GET public/{round} arrives
GetResponse(t) ==
    /\ caller[t].pc = "get_with_string"
    /\ \E answer \in BeaconAnswers :
          LET r == get_with_string_fetch(answer)
              s == caller[t]
          IN  Step(t, IF r.kind # "Ok" THEN Done(s, r)
                      ELSE [s EXCEPT !.beacon = r.rb.beacon, !.pc = "chain_info",
                                     !.phase = "time"],
                   answer, NoRet)
    /\ UNCHANGED <<options, cached_chain_info, server, started, infoRequests, ovars>>

\* chain_info, lines 155-160: read the cache under the lock; on a miss, or
\* without cache, send GET info
ChainInfoRead(t) ==
    /\ caller[t].pc = "chain_info"
    /\ IF CacheHit(options, cached_chain_info)
       THEN /\ \E now \in NowsAt(caller[t]) :
                  LET r == OkInfo(cached_chain_info.v)
                  IN  Step(t, AfterChainInfo(caller[t], r, now), NoAnswer, r)
            /\ UNCHANGED infoRequests
       ELSE /\ Step(t, [caller[t] EXCEPT !.pc = "chain_info_no_cache"], NoAnswer, NoRet)
            /\ infoRequests' = infoRequests + 1
    /\ UNCHANGED <<options, cached_chain_info, server, started, ovars>>

\* chain_info_no_cache returns: the answer to GET info arrives; with the
\* cache enabled a verified info is stored under the lock (line 161)
ChainInfoResponse(t) ==
    /\ caller[t].pc = "chain_info_no_cache"
    /\ \E answer \in InfoAnswersOf(server), now \in NowsAt(caller[t]) :
          LET r == chain_info_no_cache(options, answer)
          IN  /\ Step(t, AfterChainInfo(caller[t], r, now), answer, r)
              /\ cached_chain_info' = CacheAfter(options, cached_chain_info, r)
    /\ UNCHANGED <<options, server, started, infoRequests, ovars>>

Next ==
    \E t \in Callers :
        \/ StartChainInfo(t)
        \/ StartGet(t)
        \/ StartLatest(t)
        \/ GetResponse(t)
        \/ ChainInfoRead(t)
        \/ ChainInfoResponse(t)

Spec == Init /\ [][Next]_vars

\* the client of the verifier specification: constructed, never called
ClientIdle == ClientNew(ChainOptions_default, [mode |-> "any", info |-> NoInfo])

VerifyInit ==
    /\ ClientIdle
    /\ vBeacon \in VerifyBeacons
    /\ vInfo \in VerifyInfos
    /\ vResult = NoResult
    /\ vDst = ""
    /\ PureIdle
    /\ DeeIdle

\* a caller applies ApiBeacon::verify to the beacon and the chain info
VerifyCall ==
    /\ vResult = NoResult
    /\ vResult' = ApiBeacon_verify(vBeacon, vInfo)
    /\ vDst' = IF SchemeGate(vBeacon, vInfo) \/ ApiBeacon_message(vBeacon).kind = "Panic"
               THEN "" ELSE ApiBeacon_dst(vInfo)
    /\ UNCHANGED <<vBeacon, vInfo, cvars, pvars, dvars>>

VerifyNext == VerifyCall

VerifySpec == VerifyInit /\ [][VerifyNext]_vars


(***************************************************************************)
(* Properties of ApiBeacon::verify, checked under VerifySpec.              *)
(***************************************************************************)
VerifyDone == vResult # NoResult

\* the BLS check of the call in the current state (defined when the gate
\* passed and the signing message was computed)
BlsCheck ==
    bls_signatures_verify(vDst, vBeacon.signature, ApiBeacon_message(vBeacon).msg,
                          vInfo.public_key)

RandomnessCheck == Sha256(vBeacon.signature) = vBeacon.randomness

ChecksRan == VerifyDone /\ vDst # ""

\* C2: verify returns true only when the BLS signature check on (signature,
\* signing message, chain public key, selected tag) succeeds and
\* SHA-256(signature) equals the randomness; when the scheme gate passes and
\* either check fails without a primitive error, verify returns false.
C2_VerifyIsConjunction ==
    /\ vResult = OkBool(TRUE)
          => ChecksRan /\ BlsCheck = OkBool(TRUE) /\ RandomnessCheck
    /\ (ChecksRan /\ BlsCheck.kind = "Ok" /\ (~BlsCheck.value \/ ~RandomnessCheck))
          => vResult = OkBool(FALSE)

\* C2 witness: a beacon whose signature is a valid signature of the chain's
\* key over another round, with matching randomness, was rejected with false.
C2_Witness ==
    /\ ChecksRan
    /\ vBeacon.signature.enc \in Groups
    /\ vBeacon.signature.val.base.msg # ApiBeacon_message(vBeacon).msg
    /\ BlsCheck = OkBool(FALSE)
    /\ RandomnessCheck
    /\ vResult = OkBool(FALSE)

\* C3: a chained beacon against an unchained chain, or an unchained beacon
\* against a chained chain, makes verify return Ok(false): never true, never
\* an error, never an abort.
C3_ChainedMismatchIsFalse ==
    (VerifyDone /\ ApiBeacon_is_unchained(vBeacon) # ChainInfo_is_unchained(vInfo))
        => vResult = OkBool(FALSE)

\* C3 witness: an unchained beacon carrying a signature of the chain's key
\* over its own round was checked against a chained chain and rejected.
C3_Witness ==
    /\ VerifyDone
    /\ ApiBeacon_is_unchained(vBeacon)
    /\ ~ChainInfo_is_unchained(vInfo)
    /\ bls_signatures_verify(ApiBeacon_dst(vInfo), vBeacon.signature,
                             ApiBeacon_message(vBeacon).msg, vInfo.public_key)
          = OkBool(TRUE)
    /\ RandomnessCheck
    /\ vResult = OkBool(FALSE)

\* C4: an unchained beacon with a 48-byte signature against a chain whose
\* scheme id does not contain "g1" makes verify return Ok(false) without an
\* error.
C4_G1BeaconOnNonG1ChainIsFalse ==
    (/\ VerifyDone
     /\ ApiBeacon_is_unchained(vBeacon)
     /\ vBeacon.signature.len = 48
     /\ ~Contains(vInfo.scheme_id, StrG1))
        => vResult = OkBool(FALSE)

\* C4 witness: a 48-byte unchained beacon was checked against an unchained
\* chain without "g1" whose key the BLS primitive would have failed to decode.
C4_Witness ==
    /\ VerifyDone
    /\ ApiBeacon_is_unchained(vBeacon)
    /\ vBeacon.signature.len = 48
    /\ ChainInfo_is_unchained(vInfo)
    /\ ~Contains(vInfo.scheme_id, StrG1)
    /\ bls_signatures_verify(ApiBeacon_dst(vInfo), vBeacon.signature,
                             ApiBeacon_message(vBeacon).msg, vInfo.public_key).kind
          = "Err"
    /\ vResult = OkBool(FALSE)

IsG1Chain(info) ==
    /\ ChainInfo_is_unchained(info)
    /\ Contains(info.scheme_id, StrG1)
    /\ g2_from_variable(info.public_key).ok

IsG1Beacon(b) == ApiBeacon_is_unchained(b) /\ b.signature.len = 48

ValidFor(b, info) == ApiBeacon_verify(b, info) = OkBool(TRUE)

Requested == str_parse_u64(last.round).n

\* the last step returned from get(r) on a client that verifies beacons
VerifiedGetReturned == last.op = "get" /\ options.is_beacon_verification

\* verify_beacon was handed the received beacon and a chain info against
\* which that beacon verifies
ReceivedBeaconVerifies ==
    /\ last.phase = "verify"
    /\ last.chain_info.kind = "Ok"
    /\ ApiBeacon_verify(last.beacon, last.chain_info.info) = OkBool(TRUE)

\* C1: with beacon verification enabled, get(r) returns a beacon only if it
\* is the received beacon, that beacon verifies against the chain info
\* chain_info() gave to verify_beacon, and its round is r; a received beacon
\* that verifies but carries another round makes get(r) fail with
\* RoundMismatch.
C1_VerifiedGet ==
    VerifiedGetReturned =>
        /\ last.ret.kind = "Ok" =>
              /\ ReceivedBeaconVerifies
              /\ last.ret.rb.beacon = last.beacon
              /\ last.beacon.round = Requested
        /\ (ReceivedBeaconVerifies /\ last.beacon.round # Requested) =>
              last.ret = Err("RoundMismatch")

\* C1 witness: get(r) received a verifying beacon of another round and
\* failed with RoundMismatch
C1_Witness ==
    /\ VerifiedGetReturned
    /\ ReceivedBeaconVerifies
    /\ last.beacon.round # Requested
    /\ last.ret = Err("RoundMismatch")

\* the last step received HTTP 404 for the beacon request of get(round)
NumberedRoundNotFound ==
    /\ last.op = "get"
    /\ last.pc = "get_with_string"
    /\ last.answer = StatusAnswer(404)

\* C6: a 404 answer to the request for a numbered round makes get(round)
\* fail with NotFound, whatever the options and the cache hold.
C6_NotFound == NumberedRoundNotFound => last.ret = Err("NotFound")

\* C6 witness: get(round) returned NotFound on a 404, on a client whose
\* cache holds a chain info
C6_Witness ==
    /\ NumberedRoundNotFound
    /\ last.ret = Err("NotFound")
    /\ cached_chain_info.some

\* every call made so far has returned
AllReturned == \A t \in Callers : ~InCall(t)

\* C7: after N >= 1 sequential successful chain_info() calls on a new
\* client, exactly one GET info was sent if the cache is enabled and exactly
\* N if it is disabled.
C7_RequestsPerCall ==
    (sequentialInfoOk /\ AllReturned /\ started >= 1) =>
        infoRequests = IF options.is_cache THEN 1 ELSE started

\* C7 witness: MaxCalls sequential successful chain_info() calls on a
\* cache-enabled client
C7_Witness ==
    /\ sequentialInfoOk
    /\ AllReturned
    /\ started = MaxCalls
    /\ options.is_cache
    /\ infoRequests = 1

\* the client caches and the server answers every GET info with one chain info
FixedServerWithCache == options.is_cache /\ server.mode = "fixed"

\* C8 as stated: with the cache enabled and a server that always returns the
\* same chain info, every chain_info() call returns that info and the cache
\* then holds exactly it.
C8_AsStated ==
    FixedServerWithCache =>
        /\ cached_chain_info \in {NoneInfo, SomeInfo(server.info)}
        /\ last.op = "chain_info" =>
              /\ last.ret = OkInfo(server.info)
              /\ cached_chain_info = SomeInfo(server.info)

\* C8: with the cache enabled and a server that always returns the same
\* chain info, one that satisfies the client's ChainVerification, every
\* chain_info() call returns that info and the cache then holds exactly it,
\* under every interleaving and however many of the calls fetched.
C8_ConcurrentCallsAgree ==
    (FixedServerWithCache /\ ChainOptions_verify(options, server.info)) =>
        /\ cached_chain_info \in {NoneInfo, SomeInfo(server.info)}
        /\ last.op = "chain_info" =>
              /\ last.ret = OkInfo(server.info)
              /\ cached_chain_info = SomeInfo(server.info)

\* C8 witness: two first chain_info() calls both missed the cache and both
\* fetched; one has returned the info while the other's fetch is in flight
C8_Witness ==
    /\ FixedServerWithCache
    /\ ChainOptions_verify(options, server.info)
    /\ last.op = "chain_info"
    /\ last.pc = "chain_info_no_cache"
    /\ last.ret = OkInfo(server.info)
    /\ \E t \in Callers :
          caller[t].op = "chain_info" /\ caller[t].pc = "chain_info_no_cache"

\* caller t's fetch of the chain info failed in this step
FetchFailed(t) ==
    /\ caller[t].pc = "chain_info_no_cache"
    /\ caller'[t].pc = "idle"
    /\ last'.chain_info.kind = "Err"

\* caller t read an enabled, empty cache, or a disabled one, in this step
ReadMissed(t) ==
    /\ caller[t].pc = "chain_info"
    /\ caller'[t] # caller[t]
    /\ ~(options.is_cache /\ cached_chain_info.some)

\* C9: a step in which a fetch of the chain info fails (transport error,
\* error status, malformed body, failed pinned check) leaves the cache as it
\* was, every other step of a chain_info() that does not return a fetched
\* info leaves it too, and a chain_info() that finds the cache empty sends a
\* GET info.
C9_FailedFetchKeepsCache ==
    [][\A t \in Callers :
          /\ FetchFailed(t) => cached_chain_info' = cached_chain_info
          /\ (caller[t].pc = "chain_info" /\ caller'[t] # caller[t]) =>
                cached_chain_info' = cached_chain_info
          /\ ReadMissed(t) =>
                /\ caller'[t].pc = "chain_info_no_cache"
                /\ infoRequests' = infoRequests + 1]_vars

\* C9 witness: on a cache-enabled client the second GET info of a
\* chain_info() call has just failed the pinned check, and the cache is
\* still empty
C9_Witness ==
    /\ options.is_cache
    /\ last.op = "chain_info"
    /\ last.pc = "chain_info_no_cache"
    /\ last.ret = Err("InvalidChainInfo")
    /\ infoRequests = 2
    /\ ~cached_chain_info.some

\* the last step received, from GET info, a chain info that the client's
\* ChainVerification rejects
FetchedInfoRejected ==
    /\ last.pc = "chain_info_no_cache"
    /\ ureq_call(last.answer).kind = "Ok"
    /\ last.answer.json_ok
    /\ ~ChainOptions_verify(options, last.answer.info)

\* C10: a fetched chain info that the ChainVerification rejects makes
\* chain_info() fail with InvalidChainInfo and makes the chain_info(), get
\* or latest call that fetched it fail too; no chain_info() ever returns,
\* and the cache never holds, an info the ChainVerification rejects.
C10_PinnedCheck ==
    /\ FetchedInfoRejected =>
          /\ last.chain_info = Err("InvalidChainInfo")
          /\ last.ret = Err("InvalidChainInfo")
    /\ last.chain_info.kind = "Ok" => ChainOptions_verify(options, last.chain_info.info)
    /\ cached_chain_info.some => ChainOptions_verify(options, cached_chain_info.v)

\* C10 witness: get on a client that verifies beacons fetched a chain info
\* with another public key than the pinned one and failed
C10_Witness ==
    /\ FetchedInfoRejected
    /\ options.chain_verification.public_key # None
    /\ options.is_beacon_verification
    /\ last.op = "get"
    /\ last.ret = Err("InvalidChainInfo")

\* caller t, inside get(round), sends GET info in this step
GetSendsInfoRequest(t) ==
    /\ caller[t].op = "get"
    /\ caller[t].pc = "chain_info"
    /\ caller'[t].pc = "chain_info_no_cache"

\* the beacon request of the get(round) call of caller t has been sent: it
\* goes out as the call begins (get_with_string, lines 126-130)
BeaconRequestSent(t) == caller[t].op = "get" /\ caller[t].pc # "idle"

\* C12 as stated: within one get(round) call no beacon request is sent
\* before the chain-info fetch of that call, so a step of the call that
\* sends GET info finds the beacon request not yet sent.
C12_InfoFetchedBeforeBeacon ==
    [][\A t \in Callers : GetSendsInfoRequest(t) => ~BeaconRequestSent(t)]_vars

(***************************************************************************)
(* chain.rs: ChainVerification::verify applied to a pinned identity and a  *)
(* chain info.                                                             *)
(***************************************************************************)
\* hashes of chains, one of them a byte shorter
PinHashes == {HashA, HashB, RawBytes(31, "h1")}

PinPublicKeys == {PublicKeyBytes("G1", k) : k \in Keys}

PinInfos ==
    {ChainInfo(pk, Period, Genesis, h, PedersenBlsUnchained) : pk \in PinPublicKeys,
                                                              h \in PinHashes}

\* ChainVerification::new over absent and present fields
PinVerifications ==
    [hash : {None} \cup {Some(h) : h \in PinHashes},
     public_key : {None} \cup {Some(pk) : pk \in PinPublicKeys}]

PinInit ==
    /\ ClientIdle
    /\ VerifierIdle
    /\ DeeIdle
    /\ pIn \in {[kind |-> "ChainVerification::verify", cv |-> cv, info |-> info] :
                    cv \in PinVerifications, info \in PinInfos}
    /\ pOut = NoValue

\* a caller applies ChainVerification::verify
PinCall ==
    /\ pIn.kind = "ChainVerification::verify"
    /\ pOut = NoValue
    /\ pOut' = [kind |-> "bool", value |-> ChainVerification_verify(pIn.cv, pIn.info)]
    /\ UNCHANGED <<pIn, cvars, vvars, dvars>>

PinNext == PinCall

PinSpec == PinInit /\ [][PinNext]_vars

PinDone == pIn.kind = "ChainVerification::verify" /\ pOut # NoValue

\* C11: ChainVerification::verify(info) is true exactly when the expected
\* hash, if present, equals info.hash and the expected public key, if
\* present, equals info.public_key; with both absent it accepts every info.
C11_PinnedFieldsMatch ==
    PinDone =>
        /\ pOut.value <=>
              /\ pIn.cv.hash = None \/ pIn.cv.hash = Some(pIn.info.hash)
              /\ pIn.cv.public_key = None \/ pIn.cv.public_key = Some(pIn.info.public_key)
        /\ (pIn.cv.hash = None /\ pIn.cv.public_key = None) => pOut.value

\* C11 witness: both fields are present, the hash matches, the public key
\* does not, and verify returned false
C11_Witness ==
    /\ PinDone
    /\ pIn.cv.hash = Some(pIn.info.hash)
    /\ pIn.cv.public_key.some
    /\ pIn.cv.public_key # Some(pIn.info.public_key)
    /\ ~pOut.value

(***************************************************************************)
(* u64 arithmetic.  The u64 range is scaled to WordBits bits.  With        *)
(* overflow checks (debug builds) an overflowing operation panics; without *)
(* them (release builds) it wraps.                                         *)
(***************************************************************************)
WordBits == 8

U64Modulus == 2 ^ WordBits

U64Max == U64Modulus - 1

OkU64(n) == [kind |-> "Ok", n |-> n]

PanicU64 == [kind |-> "Panic", n |-> 0]

\* the outcome of an operation whose mathematical result is n
u64_result(overflow_checks, n) ==
    IF 0 <= n /\ n <= U64Max THEN OkU64(n)
    ELSE IF overflow_checks THEN PanicU64
    ELSE OkU64(((n % U64Modulus) + U64Modulus) % U64Modulus)

\* a + b * c as Rust evaluates it: the product first, then the sum
u64_mul_add(overflow_checks, a, b, c) ==
    LET product == u64_result(overflow_checks, b * c)
    IN  IF product.kind # "Ok" THEN product
        ELSE u64_result(overflow_checks, a + product.n)

\* the u64 values the calculus is applied to: the small ones and the largest
U64Samples == 0..3 \cup {U64Max \div 3, U64Max \div 2, U64Max - 1, U64Max}

(***************************************************************************)
(* http_client.rs: the time get_with_string attaches to a received beacon  *)
(* (lines 139-141).                                                        *)
(***************************************************************************)
AttachInputs ==
    [kind : {"unix_time"}, overflow_checks : BOOLEAN, genesis_time : U64Samples,
     period : U64Samples, round : U64Samples]

AttachInit ==
    /\ ClientIdle
    /\ VerifierIdle
    /\ DeeIdle
    /\ pIn \in AttachInputs
    /\ pOut = NoValue

\* get_with_string computes unix_time and wraps the beacon
AttachTime ==
    /\ pIn.kind = "unix_time"
    /\ pOut = NoValue
    /\ pOut' = u64_mul_add(pIn.overflow_checks, pIn.genesis_time, pIn.round, pIn.period)
    /\ UNCHANGED <<pIn, cvars, vvars, dvars>>

AttachNext == AttachTime

AttachSpec == AttachInit /\ [][AttachNext]_vars

\* C13 as stated: every beacon get or latest returns has time ==
\* genesis_time + round * period, for every u64 round, genesis and period.
C13_TimeOfEveryRound ==
    (pIn.kind = "unix_time" /\ pOut # NoValue /\ pOut.kind = "Ok") =>
        pOut.n = pIn.genesis_time + pIn.round * pIn.period

(***************************************************************************)
(* Date-times and durations in whole seconds.  An OffsetDateTime is its    *)
(* unix timestamp; the range of representable date-times (years -9999 to   *)
(* 9999) is scaled, like the integers, and lies inside the i64 range.      *)
(***************************************************************************)
I64Max == (U64Modulus \div 2) - 1

I64Min == -(U64Modulus \div 2)

\* n as i64
as_i64(n) == IF n > I64Max THEN n - U64Modulus ELSE n

\* n as u64
as_u64(n) == ((n % U64Modulus) + U64Modulus) % U64Modulus

DateMax == (U64Modulus \div 4) - 1

DateMin == -(U64Modulus \div 4)

InDateRange(t) == DateMin <= t /\ t <= DateMax

\* i64 division, which truncates toward zero (the divisor is not 0)
i64_div(a, b) ==
    LET q == (IF a < 0 THEN -a ELSE a) \div (IF b < 0 THEN -b ELSE b)
    IN  IF (a < 0) = (b < 0) THEN q ELSE -q

TwoDigits(n) == <<DigitChars[(n \div 10) + 1], DigitChars[(n % 10) + 1]>>

DayString(day) ==
    IF day = 0 THEN <<"1", "9", "7", "0", "-", "0", "1", "-", "0", "1">>
    ELSE <<"1", "9", "6", "9", "-", "1", "2", "-", "3", "1">>

\* OffsetDateTime::format(&Rfc3339) of the UTC date-time with timestamp t,
\* for the two days around the epoch
Rfc3339_format(t) ==
    LET day == IF t < 0 THEN -1 ELSE 0
        sec == t - day * 86400
    IN  DayString(day) \o <<"T">> \o TwoDigits(sec \div 3600) \o <<":">>
            \o TwoDigits((sec % 3600) \div 60) \o <<":">> \o TwoDigits(sec % 60) \o <<"Z">>

OkParse(n) == [kind |-> "Ok", n |-> n]

ErrParse == [kind |-> "Err", n |-> 0]

PanicParse == [kind |-> "Panic", n |-> 0]

AllDigits(str) == Len(str) > 0 /\ \A i \in 1..Len(str) : IsDigit(str[i])

\* OffsetDateTime::parse(str, &Rfc3339), for the two days around the epoch
Rfc3339_parse(str) ==
    IF Len(str) # 20 THEN ErrParse
    ELSE LET date == SubSeq(str, 1, 10)
             hh == SubSeq(str, 12, 13)
             mm == SubSeq(str, 15, 16)
             ss == SubSeq(str, 18, 19)
         IN  IF \/ date \notin {DayString(0), DayString(-1)}
                \/ str[11] \notin {"T", "t"} \/ str[14] # ":" \/ str[17] # ":"
                \/ str[20] \notin {"Z", "z"}
                \/ ~AllDigits(hh) \/ ~AllDigits(mm) \/ ~AllDigits(ss)
             THEN ErrParse
             ELSE IF DigitsValue(hh) > 23 \/ DigitsValue(mm) > 59 \/ DigitsValue(ss) > 59
             THEN ErrParse
             ELSE OkParse((IF date = DayString(0) THEN 0 ELSE -86400)
                              + 3600 * DigitsValue(hh) + 60 * DigitsValue(mm)
                              + DigitsValue(ss))

\* str::parse::<u64>, with the u64 range
parse_u64(str) ==
    LET r == str_parse_u64(str)
    IN  IF r.ok /\ r.n <= U64Max THEN OkParse(r.n) ELSE ErrParse

\* str::parse::<i64>: an optional sign, then digits, within the i64 range
parse_i64(str) ==
    LET signed == Len(str) > 0 /\ str[1] \in {"+", "-"}
        digits == IF signed THEN SubSeq(str, 2, Len(str)) ELSE str
        n == IF signed /\ str[1] = "-" THEN -DigitsValue(digits) ELSE DigitsValue(digits)
    IN  IF ~AllDigits(digits) THEN ErrParse
        ELSE IF n < I64Min \/ n > I64Max THEN ErrParse
        ELSE OkParse(n)

(***************************************************************************)
(* drand_core's RandomnessBeaconTime (beacon.rs) and dee's own (time.rs).  *)
(* now is the reading of the clock the function takes.                     *)
(***************************************************************************)
ChainTimeInfo(genesis_time, period) == [genesis_time |-> genesis_time, period |-> period]

OkTime(round, relative, absolute) ==
    [kind |-> "Ok", round |-> round, relative |-> relative, absolute |-> absolute]

PanicTime == [kind |-> "Panic", round |-> 0, relative |-> 0, absolute |-> 0]

\* from_round with the number of periods that separate the round from genesis
\* left open: periods(round) is a u64 result
from_round_after(overflow_checks, info, now, round, periods) ==
    LET product == IF periods.kind = "Ok"
                   THEN u64_result(overflow_checks, periods.n * info.period)
                   ELSE periods
        genesis == as_i64(info.genesis_time)
        absolute == genesis + as_i64(product.n)
    IN  IF ~InDateRange(genesis) \/ product.kind # "Ok" \/ ~InDateRange(absolute)
        THEN PanicTime
        ELSE OkTime(round, absolute - now, absolute)

\* a variant of from_round that counts the periods from round 0
RandomnessBeaconTime_from_round_zero_based(overflow_checks, info, now, round) ==
    from_round_after(overflow_checks, info, now, round, OkU64(round))

RandomnessBeaconTime_from_round(overflow_checks, info, now, round) ==
    from_round_after(overflow_checks, info, now, round, u64_result(overflow_checks, round - 1))

dee_RandomnessBeaconTime_from_round(overflow_checks, info, now, round) ==
    from_round_after(overflow_checks, info, now, round, OkU64(round))

\* the round of a date-time, shared by from_duration and from_datetime
RoundAt(info, absolute, first) ==
    as_u64(i64_div(absolute - as_i64(info.genesis_time), as_i64(info.period)) + first)

\* a variant of from_datetime that numbers the first round 0
RandomnessBeaconTime_from_datetime_zero_based(info, now, absolute) ==
    IF ~InDateRange(as_i64(info.genesis_time)) \/ info.period = 0 THEN PanicTime
    ELSE OkTime(RoundAt(info, absolute, 0), absolute - now, absolute)

RandomnessBeaconTime_from_datetime(info, now, absolute) ==
    IF ~InDateRange(as_i64(info.genesis_time)) \/ info.period = 0 THEN PanicTime
    ELSE OkTime(RoundAt(info, absolute, 1), absolute - now, absolute)

RandomnessBeaconTime_from_duration(info, now, relative) ==
    IF ~InDateRange(as_i64(info.genesis_time)) \/ ~InDateRange(now + relative)
           \/ info.period = 0
    THEN PanicTime
    ELSE OkTime(RoundAt(info, now + relative, 1), relative, now + relative)

UnitSeconds(c) ==
    CASE c = "s" -> 1 [] c = "m" -> 60 [] c = "h" -> 3600 [] c = "d" -> 86400 [] OTHER -> 0

\* parse_duration: the length minus one, then the unit; an empty string has
\* no last character
RandomnessBeaconTime_parse_duration(duration) ==
    IF Len(duration) = 0 THEN PanicParse
    ELSE LET principal == parse_i64(SubSeq(duration, 1, Len(duration) - 1))
             unit == UnitSeconds(duration[Len(duration)])
         IN  IF principal.kind # "Ok" \/ unit = 0 THEN ErrParse
             ELSE OkParse(principal.n * unit)

\* the three readings of the text that new matches on
Readings(round) ==
    <<parse_u64(round), RandomnessBeaconTime_parse_duration(round), Rfc3339_parse(round)>>

NumberOfReadings(round) == Cardinality({i \in 1..3 : Readings(round)[i].kind = "Ok"})

\* new evaluates the three readings, then matches on them
RandomnessBeaconTime_new(overflow_checks, info, now, round) ==
    LET m == Readings(round)
    IN  IF m[2].kind = "Panic" THEN PanicTime
        ELSE IF m[1].kind = "Ok" /\ m[2].kind = "Err" /\ m[3].kind = "Err"
        THEN RandomnessBeaconTime_from_round(overflow_checks, info, now, m[1].n)
        ELSE IF m[1].kind = "Err" /\ m[2].kind = "Ok" /\ m[3].kind = "Err"
        THEN RandomnessBeaconTime_from_duration(info, now, m[2].n)
        ELSE IF m[1].kind = "Err" /\ m[2].kind = "Err" /\ m[3].kind = "Ok"
        THEN RandomnessBeaconTime_from_datetime(info, now, m[3].n)
        ELSE PanicTime

(***************************************************************************)
(* The time calculus on its own: one call of new, of either from_round, or *)
(* the round trip of the library's test (from_round, format, new).         *)
(***************************************************************************)
TimeGenesis == {0, 10, U64Max}

TimePeriods == {0, 1, 3, U64Max \div 2}

TimeInfos == {ChainTimeInfo(g, p) : g \in TimeGenesis, p \in TimePeriods}

TimeNows == {0, 12}

TimeRounds == {0, 1, 2, 5, DateMax, U64Max \div 2, U64Max}

TimeTexts ==
    {u64_to_string(r) : r \in TimeRounds \cup {U64Max + 1}}
        \cup {Rfc3339_format(t) : t \in {-1, 0, 10, 13, 16}}
        \cup {<<"0", "s">>, <<"6", "s">>, <<"-", "3", "s">>, <<"1", "m">>, <<"+", "2">>,
              <<>>, <<"s">>, <<"5", "x">>, <<"a", "b", "c">>,
              <<"1", "9", "7", "0", "-", "0", "1", "-", "0", "1">>}

TimeInputs ==
    [kind : {"new"}, overflow_checks : BOOLEAN, info : TimeInfos, now : TimeNows,
     round : TimeTexts]
        \cup [kind : {"from_round", "dee::from_round", "round_trip"},
              overflow_checks : BOOLEAN, info : TimeInfos, now : TimeNows,
              round : TimeRounds]

TimeInit ==
    /\ ClientIdle
    /\ VerifierIdle
    /\ DeeIdle
    /\ pIn \in TimeInputs
    /\ pOut = NoValue

TimeCall(kind, result) ==
    /\ pIn.kind = kind
    /\ pOut = NoValue
    /\ pOut' = [kind |-> "RandomnessBeaconTime", time |-> result]
    /\ UNCHANGED <<pIn, cvars, vvars, dvars>>

TimeNew ==
    /\ TimeCall("new", RandomnessBeaconTime_new(pIn.overflow_checks, pIn.info, pIn.now,
                                                pIn.round))

TimeFromRound ==
    /\ TimeCall("from_round", RandomnessBeaconTime_from_round(pIn.overflow_checks, pIn.info,
                                                              pIn.now, pIn.round))

DeeTimeFromRound ==
    /\ TimeCall("dee::from_round",
                dee_RandomnessBeaconTime_from_round(pIn.overflow_checks, pIn.info, pIn.now,
                                                    pIn.round))

\* the test's sequence: the time of round r, its absolute time as RFC 3339
\* text, and that text given to new
RoundTrip(overflow_checks, info, now, round) ==
    LET first == RandomnessBeaconTime_from_round(overflow_checks, info, now, round)
    IN  IF first.kind # "Ok" THEN PanicTime
        ELSE RandomnessBeaconTime_new(overflow_checks, info, now,
                                      Rfc3339_format(first.absolute))

TimeRoundTrip ==
    /\ TimeCall("round_trip", RoundTrip(pIn.overflow_checks, pIn.info, pIn.now, pIn.round))

TimeNext == TimeNew \/ TimeFromRound \/ DeeTimeFromRound \/ TimeRoundTrip

TimeSpec == TimeInit /\ [][TimeNext]_vars

TimeDone(kind) == pIn.kind = kind /\ pOut.kind = "RandomnessBeaconTime"

\* the time genesis + n periods is a date-time the library can represent
Representable(info, n) == InDateRange(info.genesis_time + n * info.period)

\* C14 as stated: for every round r >= 1, from_round(info, r) has round r and
\* absolute time genesis_time + r * period, in drand_core and in dee alike.
C14_FromRoundTime ==
    \A kind \in {"from_round", "dee::from_round"} :
        (TimeDone(kind) /\ pIn.round >= 1 /\ pOut.time.kind = "Ok")
            => /\ pOut.time.round = pIn.round
               /\ pOut.time.absolute = pIn.info.genesis_time + pIn.round * pIn.info.period

\* new was given the decimal text of a round r >= 1
DecimalRoundGiven ==
    /\ TimeDone("new")
    /\ AllDigits(pIn.round)
    /\ DigitsValue(pIn.round) >= 1
    /\ DigitsValue(pIn.round) <= U64Max

TimeOfRoundCountedFromOne ==
    /\ pOut.time.kind = "Ok"
    /\ pOut.time.round = DigitsValue(pIn.round)
    /\ pOut.time.absolute
           = pIn.info.genesis_time + (DigitsValue(pIn.round) - 1) * pIn.info.period

RoundTripMade ==
    /\ TimeDone("round_trip")
    /\ pIn.round >= 1
    /\ pIn.info.period > 0

RoundTripReturnsRound == pOut.time.kind = "Ok" /\ pOut.time.round = pIn.round

C17_ParserFailsWithError ==
    (TimeDone("new") /\ NumberOfReadings(pIn.round) # 1)
        => pOut.time.kind \notin {"Ok", "Panic"}

\* HttpClient::get_with_string run to its end
HttpClient_get_with_string(opts, round, beacon_answer, info_answer) ==
    LET fetch == get_with_string_fetch(beacon_answer)
        info == chain_info_no_cache(opts, info_answer)
        s == [Idle EXCEPT !.round = round, !.beacon = fetch.rb.beacon,
                          !.time = info.info.genesis_time
                                       + fetch.rb.beacon.round * info.info.period]
    IN  IF fetch.kind # "Ok" THEN fetch
        ELSE IF info.kind # "Ok" THEN info
        ELSE IF ~opts.is_beacon_verification
        THEN OkBeacon(RandomnessBeacon_new(s.beacon, s.time))
        ELSE verify_beacon(s, info.info)

(***************************************************************************)
(* dee: the crypt command (dee/src/cmd/crypt.rs) from main to exit.  A     *)
(* step of the process runs up to and including its next effect on the     *)
(* outside: resolving the round, opening or reading the input, fetching a  *)
(* beacon, creating or writing the output.                                 *)
(***************************************************************************)
HashC == RawBytes(32, "h3")

\* a chain of the chained scheme
InfoC == ChainInfo(KeyA, Period, Genesis, HashC, PedersenBlsChained)

HashD == RawBytes(32, "h4")

\* a chain of an RFC 9380 scheme with signatures on G1
InfoD == ChainInfo(PublicKeyBytes("G2", 3), Period, Genesis, HashD, BlsUnchainedG1Rfc9380)

DeeChains == {InfoA, InfoB, InfoC, InfoD}

\* OffsetDateTime::now_utc while the command runs
DeeNow == Genesis + 2

ChainTimeInfo_from(info) == ChainTimeInfo(info.genesis_time, info.period)

\* Local::chain_by_hash: whether a chain of the local configuration has the hash
chain_by_hash(chains, hash) == \E c \in chains : c.hash = hash

Msg(text) == [text |-> text, round |-> 0, absolute |-> 0]

NoMsg == Msg("")

OkResult(msg) == [kind |-> "Ok", msg |-> msg]

ErrResult(msg) == [kind |-> "Err", msg |-> msg]

PanicResult == [kind |-> "Panic", msg |-> NoMsg]

\* RandResult::new(None, time).short()
RandResult_short_none(time) ==
    ErrResult([text |-> "Too early. Beacon round is {round}, estimated in {relative} ({absolute}).",
               round |-> time.round, absolute |-> time.absolute])

NoHeader == [hash |-> EmptyBytes, round |-> 0]

\* the process when main has selected the chain and calls the command
ProcStart ==
    [pc |-> "start", header |-> NoHeader, time |-> PanicTime, round |-> 0,
     round_resolved |-> FALSE, input_opened |-> FALSE, input_read |-> FALSE,
     beacon_fetched |-> FALSE, output_created |-> FALSE, output_written |-> FALSE,
     got |-> "", beacon |-> NoBeacon, signature |-> EmptyBytes, path |-> "",
     exit_code |-> -1, stdout |-> NoMsg, stderr |-> NoMsg]

\* main's match on the command's result: println and a normal end, or
\* eprintln!("error: {err}") and process::exit(1); a panic ends with code 101
main_exit(p, result) ==
    CASE result.kind = "Ok" ->
             [p EXCEPT !.pc = "exited", !.exit_code = 0, !.stdout = result.msg]
      [] result.kind = "Err" ->
             [p EXCEPT !.pc = "exited", !.exit_code = 1, !.stderr = result.msg]
      [] OTHER -> [p EXCEPT !.pc = "exited", !.exit_code = 101]

\* encrypt and decrypt call tlock_age for a chain of an RFC 9380 scheme and
\* tlock_age_non_rfc9380 for any other
tlock_path(info) == IF ChainInfo_is_rfc9380(info) THEN "tlock_age" ELSE "tlock_age_non_rfc9380"

\* a variant of the scheme check of encrypt that refuses nothing
encrypt_refuses_never(info) == FALSE

\* encrypt's first statement
encrypt_refuses(info) == ~ChainInfo_is_unchained(info)

\* dee's own RandomnessBeaconTime::new
dee_RandomnessBeaconTime_new(overflow_checks, info, now, round) ==
    LET m == Readings(round)
        at(absolute, relative) ==
            IF ~InDateRange(as_i64(info.genesis_time)) \/ ~InDateRange(absolute)
                   \/ info.period = 0
            THEN PanicTime
            ELSE OkTime(RoundAt(info, absolute, 0), relative, absolute)
    IN  IF m[2].kind = "Panic" THEN PanicTime
        ELSE IF m[1].kind = "Ok" /\ m[2].kind = "Err" /\ m[3].kind = "Err"
        THEN dee_RandomnessBeaconTime_from_round(overflow_checks, info, now, m[1].n)
        ELSE IF m[1].kind = "Err" /\ m[2].kind = "Ok" /\ m[3].kind = "Err"
        THEN at(now + m[2].n, m[2].n)
        ELSE IF m[1].kind = "Err" /\ m[2].kind = "Err" /\ m[3].kind = "Ok"
        THEN at(m[3].n, m[3].n - now)
        ELSE PanicTime

\* the --round option: none, a round, or a text that is no round expression
RoundOptions ==
    {[some |-> FALSE, v |-> <<>>], [some |-> TRUE, v |-> <<"2">>],
     [some |-> TRUE, v |-> <<"a", "b", "c">>]}

Headers == [hash : {HashA, HashB, HashC, HashD}, round : 0..2]

Formats == {"short", "long", "json"}

\* crypt has no --format and always verifies; rand has both options
Commands ==
    [name : {"encrypt", "decrypt"}, chain : DeeChains,
     chains : {cs \in SUBSET DeeChains : cs # {}}, round : RoundOptions,
     overflow_checks : BOOLEAN, format : {"short"}, verify : {TRUE}]
        \cup [name : {"rand"}, chain : DeeChains, chains : {DeeChains},
              round : RoundOptions, overflow_checks : BOOLEAN, format : Formats,
              verify : BOOLEAN]

\* main: set_upstream_and_chain selects a chain of the local configuration
DeeInit ==
    /\ ClientIdle
    /\ VerifierIdle
    /\ PureIdle
    /\ cmd \in {c \in Commands : c.chain \in c.chains}
    /\ proc = ProcStart
    /\ reader = NoValue
    /\ mutex = "free"
    /\ config = NoValue

At(name, pc) == cmd.name = name /\ proc.pc = pc

EncryptCheck ==
    /\ At("encrypt", "start")
    /\ proc' = IF encrypt_refuses(cmd.chain)
               THEN main_exit(proc, ErrResult(Msg("remote must use unchained signatures")))
               ELSE [proc EXCEPT !.pc = "round"]
    /\ UNCHANGED <<cmd, reader, mutex, config, cvars, vvars, pvars>>

\* round_from_option: latest() when no round is given, then new
EncryptResolveRound ==
    /\ At("encrypt", "round")
    /\ \E latest \in {0} \cup ClientRounds :
         LET fetched == ~cmd.round.some
             text == IF fetched THEN u64_to_string(latest) ELSE cmd.round.v
             time == dee_RandomnessBeaconTime_new(cmd.overflow_checks,
                                                  ChainTimeInfo_from(cmd.chain), DeeNow, text)
             p == [proc EXCEPT !.beacon_fetched = fetched]
         IN  proc' = IF fetched /\ latest = 0
                     THEN main_exit(p, ErrResult(Msg("latest failed")))
                     ELSE IF time.kind = "Panic" THEN main_exit(p, PanicResult)
                     ELSE [p EXCEPT !.pc = "input", !.round_resolved = TRUE,
                                    !.round = time.round, !.time = time]
    /\ UNCHANGED <<cmd, reader, mutex, config, cvars, vvars, pvars>>

\* file_or_stdin
EncryptOpenInput ==
    /\ At("encrypt", "input")
    /\ \E opened \in BOOLEAN :
         proc' = IF opened THEN [proc EXCEPT !.pc = "output", !.input_opened = TRUE]
                 ELSE main_exit(proc, ErrResult(Msg("cannot read input file")))
    /\ UNCHANGED <<cmd, reader, mutex, config, cvars, vvars, pvars>>

\* file_or_stdout, in encrypt and in decrypt
CreateOutput ==
    /\ proc.pc = "output"
    /\ \E created \in BOOLEAN :
         proc' = IF created THEN [proc EXCEPT !.pc = "write", !.output_created = TRUE]
                 ELSE main_exit(proc, ErrResult(Msg("cannot create output file")))
    /\ UNCHANGED <<cmd, reader, mutex, config, cvars, vvars, pvars>>

\* tlock_age::encrypt from the input to the output
EncryptWrite ==
    /\ At("encrypt", "write")
    /\ \E ok \in BOOLEAN :
         LET p == [proc EXCEPT !.input_read = TRUE, !.output_written = TRUE,
                               !.path = tlock_path(cmd.chain)]
         IN  proc' = main_exit(p, IF ok THEN OkResult(NoMsg) ELSE ErrResult(Msg("tlock")))
    /\ UNCHANGED <<cmd, reader, mutex, config, cvars, vvars, pvars>>

\* decrypt up to the beacon request: open the input, read the header, compare
\* its chain hash, build the client, compute the time of the header's round
DecryptReadHeader ==
    /\ At("decrypt", "start")
    /\ \E opened \in BOOLEAN, parsed \in BOOLEAN, header \in Headers :
         LET p == [proc EXCEPT !.input_opened = TRUE, !.input_read = TRUE]
             q == [p EXCEPT !.header = header]
             time == RandomnessBeaconTime_from_round(cmd.overflow_checks,
                                                     ChainTimeInfo_from(cmd.chain), DeeNow,
                                                     header.round)
         IN  proc' = IF ~opened THEN main_exit(proc, ErrResult(Msg("cannot read input file")))
                     ELSE IF ~parsed THEN main_exit(p, ErrResult(Msg("header")))
                     ELSE IF /\ header.hash # cmd.chain.hash
                             /\ chain_by_hash(cmd.chains, header.hash)
                     THEN main_exit(q, ErrResult(Msg("decryption failed. Did you forget -u {name}?")))
                     ELSE IF time.kind = "Panic" THEN main_exit(q, PanicResult)
                     ELSE [q EXCEPT !.pc = "fetch", !.time = time]
    /\ UNCHANGED <<cmd, reader, mutex, config, cvars, vvars, pvars>>

\* From<ChainInfo> for ChainVerification with no field pinned
ChainVerification_from_nothing(info) == [hash |-> None, public_key |-> None]

\* From<ChainInfo> for ChainVerification
ChainVerification_from(info) == [hash |-> Some(info.hash), public_key |-> Some(info.public_key)]

\* the client decrypt builds for the selected chain
decrypt_options(info) == ChainOptions_new(TRUE, TRUE, ChainVerification_from(info))

\* a chain info with the hash and the public key of InfoA under the chained scheme
InfoAChained == [InfoA EXCEPT !.scheme_id = PedersenBlsChained]

\* a chained beacon of round r signed by the key of InfoA
ChainedSignedBeacon(r) ==
    LET prev == RawBytes(96, "prev")
        sig == SignatureBytes("G2", 2, G2_DOMAIN, Sha256(Concat(prev, r)))
    IN  ChainedBeacon(r, Sha256(sig), sig, prev)

\* what the server of the selected remote can answer to decrypt's client
DeeServerInfos == DeeChains \cup {InfoAChained}

DeeInfoAnswers == InfoAnswers \cup {InfoBody(i) : i \in DeeServerInfos}

DeeBeaconAnswers == BeaconAnswers \cup {BeaconBody(ChainedSignedBeacon(2))}

\* how decrypt's match sees the result of client.get
decrypt_got(ret) ==
    CASE ret.kind = "Ok" -> "Ok"
      [] ret.kind = "Err" /\ ret.err = "NotFound" -> "NotFound"
      [] ret.kind = "Panic" -> "Panic"
      [] OTHER -> "Other"

\* a variant of decrypt that goes on to the output whatever the client returned
decrypt_opens_output_always(got) == TRUE

\* decrypt's match on the result of client.get: only Ok(beacon) leaves the
\* match and reaches file_or_stdout
decrypt_opens_output(got) == got = "Ok"

\* client.get(header.round()) and the match on its result
DecryptFetch ==
    /\ At("decrypt", "fetch")
    /\ \E beacon_answer \in DeeBeaconAnswers, info_answer \in DeeInfoAnswers :
         LET ret == HttpClient_get_with_string(decrypt_options(cmd.chain),
                                               u64_to_string(proc.header.round),
                                               beacon_answer, info_answer)
             got == decrypt_got(ret)
             p == [proc EXCEPT !.beacon_fetched = TRUE, !.got = got,
                               !.beacon = ret.rb.beacon]
         IN  proc' = CASE decrypt_opens_output(got) -> [p EXCEPT !.pc = "output"]
                       [] got = "Panic" -> main_exit(p, PanicResult)
                       [] got = "NotFound" -> main_exit(p, RandResult_short_none(proc.time))
                       [] OTHER -> main_exit(p, ErrResult(Msg("beacon")))
    /\ UNCHANGED <<cmd, reader, mutex, config, cvars, vvars, pvars>>

\* tlock_age::decrypt with the beacon's signature: it can succeed only on a
\* ciphertext of the chain the beacon comes from
DecryptWrite ==
    /\ At("decrypt", "write")
    /\ \E ok \in BOOLEAN :
         LET p == [proc EXCEPT !.signature = proc.beacon.signature,
                               !.path = tlock_path(cmd.chain)]
         IN  proc' = IF ok /\ proc.header.hash = cmd.chain.hash
                     THEN main_exit([p EXCEPT !.output_written = TRUE], OkResult(NoMsg))
                     ELSE main_exit(p, ErrResult(Msg("tlock")))
    /\ UNCHANGED <<cmd, reader, mutex, config, cvars, vvars, pvars>>

\* the Display text of a BeaconError
BeaconError_to_string(e) ==
    CASE e = "NotFound" -> "beacon not found"
      [] e = "Parsing" -> "parsing failed"
      [] e = "RoundMismatch" -> "round mismatch"
      [] e = "Validation" -> "validation failed"
      [] OTHER -> "cannot parse duration"

\* print_with_format(RandResult::new(None, time), format)
print_with_format_none(format, time) ==
    CASE format = "short" -> RandResult_short_none(time)
      [] format = "long" ->
             OkResult([text |-> "Round: {round} Relative: {relative} Absolute: {absolute}",
                       round |-> time.round, absolute |-> time.absolute])
      [] OTHER -> OkResult(Msg("null"))

\* what get and latest of the client can return to rand: a beacon, a
\* BeaconError, or another DrandError; the round and signature checks are
\* made only when verify is set
RandFetches(verify) ==
    {"Ok", "NotFound", "Parsing", "Other"}
        \cup (IF verify THEN {"RoundMismatch", "Validation"} ELSE {})

\* the match of rand on the result of the fetch
rand_result(format, time, got) ==
    CASE got = "Ok" -> OkResult(Msg("beacon"))
      [] got = "NotFound" -> print_with_format_none(format, time)
      [] got \in {"Parsing", "RoundMismatch", "Validation"} ->
             OkResult(Msg(BeaconError_to_string(got)))
      [] OTHER -> ErrResult(Msg("request failed"))

\* rand: the time of the --beacon option ("0s" if absent), then latest() or
\* get(time.round()), then the match on the result
Rand ==
    /\ At("rand", "start")
    /\ \E got \in RandFetches(cmd.verify) :
         LET text == IF cmd.round.some THEN cmd.round.v ELSE <<"0", "s">>
             time == RandomnessBeaconTime_new(cmd.overflow_checks,
                                              ChainTimeInfo_from(cmd.chain), DeeNow, text)
             p == [proc EXCEPT !.beacon_fetched = TRUE, !.got = got, !.time = time]
         IN  proc' = IF time.kind = "Panic" THEN main_exit(proc, PanicResult)
                     ELSE main_exit(p, rand_result(cmd.format, time, got))
    /\ UNCHANGED <<cmd, reader, mutex, config, cvars, vvars, pvars>>

DeeNext ==
    \/ Rand
    \/ EncryptCheck
    \/ EncryptResolveRound
    \/ EncryptOpenInput
    \/ CreateOutput
    \/ EncryptWrite
    \/ DecryptReadHeader
    \/ DecryptFetch
    \/ DecryptWrite

DeeSpec == DeeInit /\ [][DeeNext]_vars

\* encrypt was called on a chain whose scheme is not unchained
EncryptOnChained ==
    /\ cmd.name = "encrypt"
    /\ ~ChainInfo_is_unchained(cmd.chain)
    /\ proc.pc # "start"

Refused ==
    /\ proc.pc = "exited"
    /\ proc.exit_code = 1
    /\ proc.stderr = Msg("remote must use unchained signatures")

NothingTouched ==
    /\ ~proc.round_resolved /\ ~proc.beacon_fetched
    /\ ~proc.input_opened /\ ~proc.input_read
    /\ ~proc.output_created /\ ~proc.output_written

\* C18: encryption against a chain whose scheme is not unchained is refused
\* with an error, before any round is resolved, any input is opened or read,
\* and any output is created or written.
C18_ChainedRefusedFirst == EncryptOnChained => (Refused /\ NothingTouched)

C18_Witness == EncryptOnChained /\ Refused /\ NothingTouched /\ cmd.chain = InfoC

\* decrypt has read a header whose chain hash is not the selected chain's
HeaderOfOtherChain ==
    /\ cmd.name = "decrypt"
    /\ proc.header # NoHeader
    /\ proc.header.hash # cmd.chain.hash

\* C19 as stated: decrypt fails whenever the header's chain hash differs from
\* the selected chain's hash, whether or not a locally known remote has the
\* header's hash; no beacon is fetched and no output is written.
C19_WrongChainFails ==
    HeaderOfOtherChain
        => /\ proc.pc = "exited" /\ proc.exit_code = 1
           /\ ~proc.beacon_fetched
           /\ ~proc.output_created /\ ~proc.output_written

\* C20 as stated: when the beacon fetch of decrypt returns NotFound, decrypt
\* yields a "too early" result that names the header's round and its
\* estimated time and is not a failure with exit code 1, while every other
\* fetch error is one.
C20_TooEarlyIsNoFailure ==
    /\ (cmd.name = "decrypt" /\ proc.got = "NotFound")
           => /\ proc.pc = "exited"
              /\ proc.exit_code # 1
              /\ RandResult_short_none(proc.time).msg \in {proc.stdout, proc.stderr}
              /\ proc.time.round = proc.header.round
    /\ (cmd.name = "decrypt" /\ proc.got = "Other")
           => (proc.pc = "exited" /\ proc.exit_code = 1)

\* a get of a client without beacon verification has received a well-formed
\* beacon and has ended
UnverifiedGetEnded ==
    /\ last.op = "get"
    /\ last.beacon # NoBeacon
    /\ ~options.is_beacon_verification

ReceivedBeaconReturned ==
    /\ last.ret.kind = "Ok"
    /\ last.ret.rb.beacon = last.beacon

\* C24 as stated: with beacon verification disabled, get(round) returns
\* whatever well-formed beacon the server sent, as a success.
C24_AsStated == UnverifiedGetEnded => ReceivedBeaconReturned

\* C24: with beacon verification disabled, get(round) returns whatever
\* well-formed beacon the server sent, without signature or round check, as a
\* success whenever chain_info() succeeds; it returns the error of
\* chain_info() otherwise.
C24_UnverifiedGet ==
    UnverifiedGetEnded
        => IF last.chain_info.kind = "Ok" THEN ReceivedBeaconReturned
           ELSE last.ret = last.chain_info

\* the beacon returned neither verifies nor has the requested round
C24_Witness ==
    /\ UnverifiedGetEnded
    /\ ReceivedBeaconReturned
    /\ last.beacon = MislabelledBeacon
    /\ last.round = <<"2">>
    /\ ~ApiBeacon_verify(last.beacon, last.chain_info.info).value

\* a call of latest() has ended after its beacon request was answered
LatestEnded == last.op = "latest" /\ last.pc # "get_with_string" /\ last.beacon # NoBeacon

\* the rounds of the instants the clock can show: (now - genesis) / period + 1
RoundsOfNow == {u64_to_string(((now - Genesis) \div Period) + 1) : now \in Nows}

\* C25: latest() with verification enabled requests the numbered round it
\* derives from the current time and the chain info, and applies the round
\* check of get(round): a beacon is returned only if its round is the
\* requested one, and a verifying beacon of another round is a RoundMismatch.
\* latest() with verification disabled requests public/latest and makes no
\* round check.
C25_LatestRoundCheck ==
    /\ (last.op = "latest" /\ last.round # <<>>)
           => IF options.is_beacon_verification THEN last.round \in RoundsOfNow
              ELSE last.round = StrLatest
    /\ (LatestEnded /\ last.chain_info.kind = "Ok")
           => IF ~options.is_beacon_verification THEN ReceivedBeaconReturned
              ELSE IF ~ApiBeacon_verify(last.beacon, last.chain_info.info).value
              THEN last.ret.kind = "Err"
              ELSE IF last.beacon.round # str_parse_u64(last.round).n
              THEN last.ret = Err("RoundMismatch")
              ELSE ReceivedBeaconReturned

\* latest() asked for round 2, got the beacon of round 1, and refused it
C25_Witness ==
    /\ LatestEnded
    /\ options.is_beacon_verification
    /\ last.round = <<"2">>
    /\ last.beacon = SignedBeacon(1)
    /\ last.ret = Err("RoundMismatch")

(***************************************************************************)
(* dee's ResetReader (crypt.rs): decrypt reads the header through it,      *)
(* resets it, and hands it to tlock_age::decrypt, which reads the whole    *)
(* stream again.  The inner reader is a byte stream and a position; a read *)
(* of the inner reader may return fewer bytes than asked for.              *)
(***************************************************************************)
MaxStreamLen == 3

\* the streams: their bytes are distinct, so that a lost, doubled or moved
\* byte shows
Streams == {[i \in 1..n |-> i] : n \in 0..MaxStreamLen}

\* the sizes of the caller's buffer
ReadSizes == 0..MaxStreamLen

NoRead == [kind |-> "None", n |-> 0, len |-> 0]

\* ResetReader::new, before the first read
ResetReader_new(data) ==
    [kind |-> "ResetReader", data |-> data, pos |-> 0, buf |-> <<>>, offset |-> 0,
     is_buffer_enabled |-> TRUE, got |-> <<>>, last |-> NoRead]

\* the reader after a read that panicked
ReadPanicked(rd, len) == [rd EXCEPT !.last = [kind |-> "Panic", n |-> 0, len |-> len]]

\* the reader after a read that returned Ok(Len(bytes)) with these bytes in
\* the caller's buffer; got collects what the caller receives after reset()
ReadReturned(rd, len, bytes) ==
    [rd EXCEPT !.last = [kind |-> "Ok", n |-> Len(bytes), len |-> len],
               !.got = IF rd.is_buffer_enabled THEN @ ELSE @ \o bytes]

\* what inner.read may return for a buffer of size len: nothing at the end
\* of the stream or for an empty buffer, else between 1 and len bytes
InnerReads(rd, len) ==
    LET left == Len(rd.data) - rd.pos
        most == IF len < left THEN len ELSE left
    IN  IF most = 0 THEN {0} ELSE 1..most

\* <ResetReader as Read>::read on a buffer of size len, where r is the
\* number of bytes the inner reader returns if it is asked
ResetReader_read(rd, len, r) ==
    IF Len(rd.buf) < rd.offset
    THEN IF len > Len(rd.buf) THEN ReadPanicked(rd, len)
         ELSE ReadReturned([rd EXCEPT !.offset = @ + len], len, SubSeq(rd.buf, 1, len))
    ELSE LET n_read_bytes == Len(rd.buf) - rd.offset
             from_read_len == len - n_read_bytes
             k == IF r < from_read_len THEN r ELSE from_read_len
             from_read == SubSeq(rd.data, rd.pos + 1, rd.pos + k)
             after_buf == IF n_read_bytes > 0 THEN [rd EXCEPT !.offset = @ + n_read_bytes]
                          ELSE rd
             from_buf == IF n_read_bytes > 0 THEN rd.buf ELSE <<>>
         IN  IF n_read_bytes > len THEN ReadPanicked(rd, len)
             ELSE IF n_read_bytes > 0 /\ n_read_bytes # Len(rd.buf) THEN ReadPanicked(rd, len)
             ELSE IF from_read_len = 0 THEN ReadReturned(after_buf, len, from_buf)
             ELSE ReadReturned(
                      [after_buf EXCEPT
                           !.pos = @ + k,
                           !.buf = IF rd.is_buffer_enabled THEN @ \o from_read ELSE @,
                           !.offset = IF rd.is_buffer_enabled THEN @ + k ELSE @],
                      len, from_buf \o from_read)

\* ResetReader::reset
ResetReader_reset(rd) == [rd EXCEPT !.offset = 0, !.is_buffer_enabled = FALSE, !.last = NoRead]

ReaderInit ==
    /\ ClientIdle
    /\ VerifierIdle
    /\ PureIdle
    /\ cmd = NoValue
    /\ proc = NoValue
    /\ reader \in {ResetReader_new(data) : data \in Streams}
    /\ mutex = "free"
    /\ config = NoValue

ReaderRead ==
    /\ reader.last.kind # "Panic"
    /\ \E len \in ReadSizes :
         \E r \in InnerReads(reader, len) :
           reader' = ResetReader_read(reader, len, r)
    /\ UNCHANGED <<cmd, proc, mutex, config, cvars, vvars, pvars>>

\* decrypt resets the reader once, after the header
ReaderReset ==
    /\ reader.last.kind # "Panic"
    /\ reader.is_buffer_enabled
    /\ reader' = ResetReader_reset(reader)
    /\ UNCHANGED <<cmd, proc, mutex, config, cvars, vvars, pvars>>

ReaderNext == ReaderRead \/ ReaderReset

ReaderSpec == ReaderInit /\ [][ReaderNext]_vars

IsPrefix(s, t) == Len(s) <= Len(t) /\ s = SubSeq(t, 1, Len(s))

\* C21 as stated: whatever the stream and the read sizes before and after
\* reset(), the bytes returned after reset() are the stream from its first
\* byte on, no read returns more than the caller's buffer holds, and no read
\* aborts.
C21_ResetReaderRoundTrip ==
    /\ reader.last.kind # "Panic"
    /\ reader.last.n <= reader.last.len
    /\ ~reader.is_buffer_enabled => IsPrefix(reader.got, reader.data)

\* the fetch of the command ended in an error other than NotFound
FetchFailedHard == proc.got \in {"Parsing", "RoundMismatch", "Validation", "Other"}

\* C22 as stated: the exit code is 0 only when the command succeeded, and it
\* is 1 with the error text on stderr for any error, a beacon Validation,
\* RoundMismatch or Parsing error raised while running rand included.
C22_ExitCodeTellsFailure ==
    (proc.pc = "exited" /\ FetchFailedHard)
        => (proc.exit_code = 1 /\ proc.stderr # NoMsg)

(***************************************************************************)
(* The two clients side by side: one call of chain_info, get or latest on  *)
(* a fresh HttpClient (http_client.rs) and on a fresh HttpChainClient      *)
(* (http_chain_client.rs), given the same answers to the beacon request    *)
(* and to the info requests.  The errors of HttpChainClient are anyhow     *)
(* errors; they are named here by the kind of the HttpClient error that    *)
(* stands for the same failure.                                            *)
(***************************************************************************)
\* HttpClient::latest run to its end
HttpClient_latest(opts, now, beacon_answer, info_answer) ==
    LET info == chain_info_no_cache(opts, info_answer)
    IN  IF ~opts.is_beacon_verification
        THEN HttpClient_get_with_string(opts, StrLatest, beacon_answer, info_answer)
        ELSE IF info.kind # "Ok" THEN info
        ELSE HttpClient_get_with_string(opts, u64_to_string(LatestRound(info.info, now)),
                                        beacon_answer, info_answer)

\* HttpChainClient::chain_info_no_cache
HttpChainClient_chain_info_no_cache(opts, info_answer) ==
    IF info_answer.net = "error" THEN Err("RequestFailed")
    ELSE IF ~info_answer.json_ok THEN Err("Parsing")
    ELSE IF ChainOptions_verify(opts, info_answer.info) THEN OkInfo(info_answer.info)
    ELSE Err("InvalidChainInfo")

\* HttpChainClient::verify_beacon
HttpChainClient_verify_beacon(opts, beacon, info_answer) ==
    LET info == HttpChainClient_chain_info_no_cache(opts, info_answer)
        v == ApiBeacon_verify(beacon, info.info)
    IN  IF ~opts.is_beacon_verification THEN OkBeacon(RandomnessBeacon_new(beacon, 0))
        ELSE IF info.kind # "Ok" THEN info
        ELSE IF v.kind = "Panic" THEN Panic
        ELSE IF v.kind = "Err" THEN Err("Bls")
        ELSE IF ~v.value THEN Err("Validation")
        ELSE OkBeacon(RandomnessBeacon_new(beacon, 0))

\* HttpChainClient::get and HttpChainClient::latest: send, decode the body of
\* whatever status as a beacon, verify
HttpChainClient_get(opts, beacon_answer, info_answer) ==
    IF beacon_answer.net = "error" THEN Err("RequestFailed")
    ELSE IF ~beacon_answer.json_ok THEN Err("Parsing")
    ELSE HttpChainClient_verify_beacon(opts, beacon_answer.beacon, info_answer)

AdapterInputs ==
    [kind : {"chain_info", "get", "latest"},
     options : {ChainOptions_new(v, TRUE, cv) : v \in BOOLEAN, cv \in ChainVerifications},
     round : ClientRounds, now : Nows, beacon_answer : BeaconAnswers,
     info_answer : InfoAnswers]

AdapterInit ==
    /\ ClientIdle
    /\ VerifierIdle
    /\ DeeIdle
    /\ pIn \in AdapterInputs
    /\ pOut = NoValue

HttpClient_call(in) ==
    CASE in.kind = "chain_info" -> chain_info_no_cache(in.options, in.info_answer)
      [] in.kind = "get" ->
             HttpClient_get_with_string(in.options, u64_to_string(in.round),
                                        in.beacon_answer, in.info_answer)
      [] OTHER -> HttpClient_latest(in.options, in.now, in.beacon_answer, in.info_answer)

HttpChainClient_call(in) ==
    CASE in.kind = "chain_info" ->
             HttpChainClient_chain_info_no_cache(in.options, in.info_answer)
      [] OTHER -> HttpChainClient_get(in.options, in.beacon_answer, in.info_answer)

AdapterCall ==
    /\ pIn.kind \in {"chain_info", "get", "latest"}
    /\ pOut = NoValue
    /\ pOut' = [kind |-> "outcomes", sync |-> HttpClient_call(pIn),
                async |-> HttpChainClient_call(pIn)]
    /\ UNCHANGED <<pIn, cvars, vvars, dvars>>

AdapterNext == AdapterCall

AdapterSpec == AdapterInit /\ [][AdapterNext]_vars

\* the same beacon or chain info, or an error of the same kind
SameOutcome(a, b) ==
    /\ a.kind = b.kind
    /\ a.err = b.err
    /\ a.info = b.info
    /\ a.rb.beacon = b.rb.beacon

\* C23 as stated: for the same options and the same server answers,
\* chain_info, get(round) and latest yield the same outcome in HttpClient and
\* in HttpChainClient: the same beacon, or an error of the same kind.
C23_AsyncPreservesSync ==
    pOut.kind = "outcomes" => SameOutcome(pOut.sync, pOut.async)

(***************************************************************************)
(* The URLs of the requests: HttpClient (drand_core/src/http_client.rs)    *)
(* and the HttpChainClient and Chain of src/src.  A URL is its endpoint    *)
(* under the base URL and its query, a sequence of keys.  random is what   *)
(* rand::random::<u64>() returns, and the reading of the clock in          *)
(* milliseconds where the code takes its key from the clock.               *)
(***************************************************************************)
Url(endpoint, round, query) == [endpoint |-> endpoint, round |-> round, query |-> query]

\* HttpClient::chain_info_no_cache: the URL of GET info
HttpClient_info_url(is_cache, random) == Url("info", <<>>, <<>>)

\* HttpClient::beacon_url
HttpClient_beacon_url(is_cache, round, random) ==
    Url("public", round, IF ~is_cache THEN <<u64_to_string(random)>> ELSE <<>>)

\* Chain::info of src/src: the URL of GET info
Chain_info_url(is_cache, random) == Url("info", <<>>, <<>>)

\* HttpChainClient::beacon_url of src/src
HttpChainClient_beacon_url(is_cache, round, random) ==
    Url("public", round, IF is_cache THEN <<u64_to_string(random)>> ELSE <<>>)

UrlRounds == {StrLatest} \cup {u64_to_string(r) : r \in 0..MaxRound}

UrlInputs ==
    [kind : {"HttpClient::beacon_url", "HttpChainClient::beacon_url"},
     is_cache : BOOLEAN, round : UrlRounds, random : U64Samples]
        \cup [kind : {"HttpClient::chain_info_no_cache", "Chain::info"},
              is_cache : BOOLEAN, round : {<<>>}, random : U64Samples]

UrlInit ==
    /\ ClientIdle
    /\ VerifierIdle
    /\ DeeIdle
    /\ pIn \in UrlInputs
    /\ pOut = NoValue

UrlCall(kind, url) ==
    /\ pIn.kind = kind
    /\ pOut = NoValue
    /\ pOut' = [kind |-> "Url", url |-> url]
    /\ UNCHANGED <<pIn, cvars, vvars, dvars>>

InfoUrl ==
    /\ UrlCall("HttpClient::chain_info_no_cache", HttpClient_info_url(pIn.is_cache, pIn.random))

BeaconUrl ==
    /\ UrlCall("HttpClient::beacon_url",
               HttpClient_beacon_url(pIn.is_cache, pIn.round, pIn.random))

ChainInfoUrl ==
    /\ UrlCall("Chain::info", Chain_info_url(pIn.is_cache, pIn.random))

ChainBeaconUrl ==
    /\ UrlCall("HttpChainClient::beacon_url",
               HttpChainClient_beacon_url(pIn.is_cache, pIn.round, pIn.random))

UrlNext == InfoUrl \/ BeaconUrl \/ ChainInfoUrl \/ ChainBeaconUrl

UrlSpec == UrlInit /\ [][UrlNext]_vars

\* C26 as stated: without the cache every request URL (GET info, GET
\* public/latest, GET public/{round}) carries an extra random query key; with
\* the cache no request URL carries one.
C26_CacheBustingKey ==
    pOut.kind = "Url" => ((Len(pOut.url.query) = 1) = ~pIn.is_cache)

(***************************************************************************)
(* Curve placement the other way round and previous signatures of an       *)
(* unexpected length, checked under VerifySpec.                            *)
(***************************************************************************)
\* an unchained beacon with a 96-byte signature placed on G2 was checked
\* against an unchained chain whose scheme id contains "g1" and whose public
\* key has 96 bytes
G2BeaconOnG1Chain ==
    /\ VerifyDone
    /\ ApiBeacon_is_unchained(vBeacon)
    /\ vBeacon.signature.len = 96
    /\ vBeacon.signature.enc = "G2"
    /\ ChainInfo_is_unchained(vInfo)
    /\ Contains(vInfo.scheme_id, StrG1)
    /\ vInfo.public_key.len = 96

\* C27: an unchained beacon with a 96-byte G2-placed signature checked
\* against an unchained G1 chain (scheme id containing "g1", 96-byte public
\* key) makes verify return Ok(false), not an error.
C27_G2BeaconOnG1ChainIsFalse == G2BeaconOnG1Chain => vResult = OkBool(FALSE)

\* a chained beacon was checked against a chained chain
ChainedVerifyDone ==
    /\ VerifyDone
    /\ vBeacon.tag = "ChainedBeacon"

\* C28: verify ends with Ok(true), Ok(false) or an error value on every
\* chained beacon, whatever the length of its previous signature; it never
\* aborts, and it reports an error only when a BLS primitive fails.
C28_VerifyNeverAborts ==
    ChainedVerifyDone =>
        /\ vResult \in {OkBool(TRUE), OkBool(FALSE), ErrBool}
        /\ vResult = ErrBool => BlsCheck.kind = "Err"

(***************************************************************************)
(* The two time conventions side by side, and round 0.  The client         *)
(* attaches genesis_time + round * period to a beacon (http_client.rs      *)
(* 139-141) and derives a round from a unix time in get_by_unix_time       *)
(* (195-200); the calculus of beacon.rs counts the periods from round 1.   *)
(***************************************************************************)
\* the round get_by_unix_time asks get for: the subtraction, then the
\* division, which aborts on a period of 0
HttpClient_get_by_unix_time_round(overflow_checks, info, round_unix_time) ==
    LET elapsed == u64_result(overflow_checks, round_unix_time - info.genesis_time)
    IN  IF elapsed.kind # "Ok" \/ info.period = 0 THEN PanicU64
        ELSE OkU64(elapsed.n \div info.period)

\* the date-time of a unix timestamp held in a u64
OffsetDateTime_from_unix_timestamp(info, now, n) ==
    IF ~InDateRange(as_i64(n)) THEN PanicTime
    ELSE RandomnessBeaconTime_from_datetime(info, now, as_i64(n))

\* what the client and the calculus make of one round: the time the client
\* attaches, the time from_round gives, and the round from_datetime derives
\* from the attached instant
TimesOfRound(overflow_checks, info, now, round) ==
    LET attached == u64_mul_add(overflow_checks, info.genesis_time, round, info.period)
    IN  [kind |-> "TimesOfRound",
         attached |-> attached,
         time |-> RandomnessBeaconTime_from_round(overflow_checks, info, now, round),
         derived |-> IF attached.kind # "Ok" THEN PanicTime
                     ELSE OffsetDateTime_from_unix_timestamp(info, now, attached.n)]

UnixTimes == {0, 9, 10, 13, U64Max}

ConventionInputs ==
    {i \in TimeInputs : i.kind \in {"new", "from_round"}}
        \cup [kind : {"times_of_round"}, overflow_checks : BOOLEAN, info : TimeInfos,
              now : TimeNows, round : TimeRounds]
        \cup [kind : {"get_by_unix_time"}, overflow_checks : BOOLEAN, info : TimeInfos,
              now : TimeNows, round_unix_time : UnixTimes]

ConventionInit ==
    /\ ClientIdle
    /\ VerifierIdle
    /\ DeeIdle
    /\ pIn \in ConventionInputs
    /\ pOut = NoValue

\* a beacon of round pIn.round goes through get_with_string, and the same
\* round through from_round and from_datetime
AttachAndDerive ==
    /\ pIn.kind = "times_of_round"
    /\ pOut = NoValue
    /\ pOut' = TimesOfRound(pIn.overflow_checks, pIn.info, pIn.now, pIn.round)
    /\ UNCHANGED <<pIn, cvars, vvars, dvars>>

\* get_by_unix_time up to its call of get
GetByUnixTime ==
    /\ pIn.kind = "get_by_unix_time"
    /\ pOut = NoValue
    /\ pOut' = [kind |-> "RoundOfUnixTime",
                round |-> HttpClient_get_by_unix_time_round(pIn.overflow_checks, pIn.info,
                                                            pIn.round_unix_time)]
    /\ UNCHANGED <<pIn, cvars, vvars, dvars>>

ConventionNext == TimeNew \/ TimeFromRound \/ AttachAndDerive \/ GetByUnixTime

ConventionSpec == ConventionInit /\ [][ConventionNext]_vars

\* a round r >= 1 went through the client and the calculus without an abort
TimesOfRoundMade ==
    /\ pIn.kind = "times_of_round"
    /\ pOut.kind = "TimesOfRound"
    /\ pIn.round >= 1
    /\ pOut.attached.kind = "Ok"
    /\ pOut.time.kind = "Ok"
    /\ pOut.derived.kind = "Ok"

\* C29: for every chain info and every round r >= 1, the time the HTTP
\* client attaches to a beacon of round r equals the unix timestamp of
\* from_round(info, r).absolute, and the round the calculus derives from that
\* instant is r.
C29_OneTimeConvention ==
    TimesOfRoundMade =>
        /\ pOut.attached.n = pOut.time.absolute
        /\ pOut.derived.round = pIn.round

\* round 0 was given: as the round expression "0", or to from_round
RoundZeroGiven ==
    \/ TimeDone("new") /\ pIn.round = <<"0">>
    \/ TimeDone("from_round") /\ pIn.round = 0

\* get_by_unix_time was given a time before the genesis of the chain
TimeBeforeGenesisGiven ==
    /\ pIn.kind = "get_by_unix_time"
    /\ pOut.kind = "RoundOfUnixTime"
    /\ pIn.round_unix_time < pIn.info.genesis_time

\* C30: round 0 is rejected with an error: "0" and from_round(info, 0) give
\* no beacon time and no abort, and a time before genesis given to
\* get_by_unix_time gives neither a wrapped round nor an abort.
C30_RoundZeroRejected ==
    /\ RoundZeroGiven => pOut.time.kind = "Err"
    /\ TimeBeforeGenesisGiven => pOut.round.kind = "Err"

(***************************************************************************)
(* dee crypt --decrypt: what reaches the decryption routine, and when the  *)
(* output is touched.  Checked under DeeSpec.                              *)
(***************************************************************************)
\* tlock_age::decrypt was called with a signature
SignatureHanded == cmd.name = "decrypt" /\ proc.signature # EmptyBytes

\* a chain info the client of decrypt accepts: its hash and its public key
\* are those of the locally stored chain info
Pinned(info) == info.hash = cmd.chain.hash /\ info.public_key = cmd.chain.public_key

\* the steps decrypt has made when it hands over the signature
DecryptOrderKept ==
    /\ proc.input_read
    /\ proc.header # NoHeader
    /\ proc.beacon_fetched
    /\ proc.got = "Ok"
    /\ proc.signature = proc.beacon.signature
    /\ proc.beacon.round = proc.header.round

\* C31 as stated: the signature handed to the decryption routine belongs to
\* a beacon fetched for header.round, verified against the locally stored
\* chain info, whose round equals header.round.
C31_AsStated ==
    SignatureHanded =>
        /\ DecryptOrderKept
        /\ ApiBeacon_verify(proc.beacon, cmd.chain) = OkBool(TRUE)

\* C31: the signature handed to the decryption routine belongs to a beacon
\* that was fetched for header.round after the header was read, whose round
\* equals header.round, and that was verified against a chain info the server
\* returned with the hash and the public key of the locally stored chain
\* info; nothing is written before that.
C31_DecryptOrder ==
    /\ SignatureHanded =>
          /\ DecryptOrderKept
          /\ \E info \in DeeServerInfos :
                Pinned(info) /\ ApiBeacon_verify(proc.beacon, info) = OkBool(TRUE)
    /\ (cmd.name = "decrypt" /\ proc.output_written) => SignatureHanded

\* C31 witness: a ciphertext of round 2 of the selected chain was decrypted
\* with the signature of the signed beacon of round 2.
C31_Witness ==
    /\ SignatureHanded
    /\ cmd.chain = InfoA
    /\ proc.header = [hash |-> HashA, round |-> 2]
    /\ proc.beacon = SignedBeacon(2)
    /\ proc.output_written
    /\ proc.exit_code = 0

\* decrypt ended without a verified beacon: the input or the header could not
\* be read, the header names another known chain, or the fetch failed
DecryptFailedEarly ==
    /\ cmd.name = "decrypt"
    /\ proc.pc = "exited"
    /\ proc.got # "Ok"

OutputUntouched == ~proc.output_created /\ ~proc.output_written

\* C32: decrypt creates, truncates or writes the output only after the beacon
\* for header.round was fetched and verified; on a header read error, a
\* wrong-chain failure, NotFound or any other fetch or verification error the
\* output is left untouched.
C32_OutputOnlyAfterBeacon ==
    /\ (cmd.name = "decrypt" /\ ~OutputUntouched)
          => (proc.beacon_fetched /\ proc.got = "Ok" /\ proc.beacon.round = proc.header.round)
    /\ DecryptFailedEarly => OutputUntouched

\* C32 witness: the beacon of the header's round is not published yet, and
\* decrypt ended without touching the output.
C32_Witness ==
    /\ DecryptFailedEarly
    /\ proc.got = "NotFound"
    /\ proc.header.hash = cmd.chain.hash
    /\ OutputUntouched

\* the chain a ciphertext was encrypted for, by the chain hash of its header
chain_of_header(header) == CHOOSE c \in DeeChains : c.hash = header.hash

\* decrypt has handed the body of a ciphertext that encrypt produced (encrypt
\* refuses chained chains) to one of the two decryption routines
BodyHanded ==
    /\ cmd.name = "decrypt"
    /\ proc.path # ""
    /\ ChainInfo_is_unchained(chain_of_header(proc.header))

\* decrypt has read the header of a ciphertext that was encrypted on the other
\* path than the one of the selected chain
HeaderOfOtherScheme ==
    /\ cmd.name = "decrypt"
    /\ proc.header # NoHeader
    /\ ChainInfo_is_unchained(chain_of_header(proc.header))
    /\ tlock_path(chain_of_header(proc.header)) # tlock_path(cmd.chain)

\* C33: decrypt processes a ciphertext on the path (pre-RFC 9380 or RFC 9380)
\* on which it was encrypted, never on the other, and a header whose scheme
\* does not match the selected chain's is rejected before any processing.
C33_DecryptPathMatchesEncrypt ==
    /\ BodyHanded => proc.path = tlock_path(chain_of_header(proc.header))
    /\ HeaderOfOtherScheme =>
          /\ proc.pc = "exited" /\ proc.exit_code = 1
          /\ proc.path = "" /\ ~proc.output_created

(***************************************************************************)
(* Further properties of HttpClient, checked under Spec.                   *)
(***************************************************************************)
\* the last step received the answer to GET info inside a chain_info() call
InfoAnswered(answer) ==
    /\ last.op = "chain_info"
    /\ last.pc = "chain_info_no_cache"
    /\ last.answer = answer

\* C34: a response to GET info with a non-2xx status makes chain_info() fail
\* with FailedToRetrieveChainInfo, not with RequestFailed, and a 2xx response
\* with a malformed body makes it fail with Parsing.
C34_InfoErrorKinds ==
    /\ InfoAnswered(StatusAnswer(500)) => last.ret = Err("FailedToRetrieveChainInfo")
    /\ InfoAnswered(MalformedBody) => last.ret = Err("Parsing")

\* the chain infos the server behind base_url returns
InfosOfServer == {a.info : a \in {b \in InfoAnswersOf(server) : b.json_ok}}

\* C35: in every reachable state, under any interleaving of calls, the
\* cached chain info is absent or a value that the server returned and that
\* satisfies the client's ChainVerification, it changes only when a caller
\* receives such a value from GET info, and with the cache disabled it stays
\* absent.
C35_CacheHoldsVerifiedServerInfo ==
    /\ [](cached_chain_info.some =>
             /\ cached_chain_info.v \in InfosOfServer
             /\ ChainOptions_verify(options, cached_chain_info.v))
    /\ [](~options.is_cache => ~cached_chain_info.some)
    /\ [][cached_chain_info' # cached_chain_info =>
             /\ cached_chain_info'.some
             /\ \E t \in Callers : caller[t].pc = "chain_info_no_cache"]_vars

\* C35 witness: two callers fetched the chain info concurrently on a client
\* with a pinned hash, and the cache holds the info both received.
C35_Witness ==
    /\ cached_chain_info = SomeInfo(InfoA)
    /\ options.chain_verification.hash = Some(HashA)
    /\ infoRequests = 2
    /\ AllReturned

(***************************************************************************)
(* chain_info with its Mutex made explicit (http_client.rs 154-168; the    *)
(* same statements in http_chain_client.rs 37-51).  Each lock() is a       *)
(* temporary MutexGuard that lives to the end of its statement: line 156   *)
(* locks, clones the cache and unlocks; line 161 locks, stores and         *)
(* unlocks.  A caller waits at "lock_read" or "lock_store" until the mutex *)
(* is free.                                                                *)
(***************************************************************************)
\* a variant in which the guard taken to read lives on while the info is fetched
MutexAfterRead_held_on_miss(t, cached) == IF cached.some THEN "free" ELSE t

\* the mutex at the end of the statement of line 156
MutexAfterRead(t, cached) == "free"

LockInit ==
    /\ \E opts \in {ChainOptions_new(TRUE, c, cv) : c \in BOOLEAN, cv \in ChainVerifications},
          srv \in Servers :
          ClientNew(opts, srv)
    /\ VerifierIdle
    /\ PureIdle
    /\ DeeIdle

LockFrame ==
    UNCHANGED <<options, server, sequentialInfoOk, last, vvars, pvars, cmd, proc, reader, config>>

\* a caller enters chain_info (line 155)
LockCall(t) ==
    /\ CanStart(t)
    /\ caller' = [caller EXCEPT ![t] =
                     [Idle EXCEPT !.op = "chain_info",
                                  !.pc = IF options.is_cache THEN "lock_read" ELSE "fetch"]]
    /\ started' = started + 1
    /\ infoRequests' = IF options.is_cache THEN infoRequests ELSE infoRequests + 1
    /\ UNCHANGED <<cached_chain_info, mutex>>
    /\ LockFrame

\* Mutex::lock returns to a waiting caller
MutexLock(t) ==
    /\ caller[t].pc \in {"lock_read", "lock_store"}
    /\ mutex = "free"
    /\ mutex' = t
    /\ caller' = [caller EXCEPT ![t].pc = IF caller[t].pc = "lock_read" THEN "read" ELSE "store"]
    /\ UNCHANGED <<cached_chain_info, started, infoRequests>>
    /\ LockFrame

\* line 156 to its end, and the match: a hit returns, a miss sends GET info
CacheRead(t) ==
    /\ caller[t].pc = "read"
    /\ mutex' = MutexAfterRead(t, cached_chain_info)
    /\ IF cached_chain_info.some
       THEN /\ caller' = [caller EXCEPT ![t] = Done(caller[t], OkInfo(cached_chain_info.v))]
            /\ UNCHANGED infoRequests
       ELSE /\ caller' = [caller EXCEPT ![t].pc = "fetch"]
            /\ infoRequests' = infoRequests + 1
    /\ UNCHANGED <<cached_chain_info, started>>
    /\ LockFrame

\* chain_info_no_cache returns: the answer to GET info arrives
FetchAnswer(t) ==
    /\ caller[t].pc = "fetch"
    /\ \E answer \in InfoAnswersOf(server) :
          LET r == chain_info_no_cache(options, answer)
          IN  caller' = [caller EXCEPT ![t] =
                            IF r.kind = "Ok" /\ options.is_cache
                            THEN [caller[t] EXCEPT !.pc = "lock_store", !.ret = r]
                            ELSE Done(caller[t], r)]
    /\ UNCHANGED <<cached_chain_info, started, infoRequests, mutex>>
    /\ LockFrame

\* line 161 to its end, and the return of line 162
CacheStore(t) ==
    /\ caller[t].pc = "store"
    /\ cached_chain_info' = SomeInfo(caller[t].ret.info)
    /\ mutex' = "free"
    /\ caller' = [caller EXCEPT ![t].pc = "idle"]
    /\ UNCHANGED <<started, infoRequests>>
    /\ LockFrame

LockNext ==
    \E t \in Callers :
        \/ LockCall(t)
        \/ MutexLock(t)
        \/ CacheRead(t)
        \/ FetchAnswer(t)
        \/ CacheStore(t)

\* A caller that holds the mutex runs on, and a caller that waits for a mutex
\* that is free again and again gets it; nothing is assumed of the network.
LockFairSpec ==
    /\ LockInit
    /\ [][LockNext]_vars
    /\ \A t \in Callers :
          /\ SF_vars(MutexLock(t))
          /\ WF_vars(CacheRead(t))
          /\ WF_vars(CacheStore(t))

Waiting(t) == caller[t].pc \in {"lock_read", "lock_store"}

Holding(t) == caller[t].pc \in {"read", "store"}

\* C36: chain_info() never holds the cache mutex while a fetch is in flight:
\* the mutex is held only inside the statement that reads a clone and inside
\* the one that stores a fetched value; a waiting caller waits only for a
\* caller inside one of these statements, never for a pending fetch, and a
\* call whose fetch has completed terminates.
C36_NoLockAcrossFetch ==
    /\ [](\A t \in Callers : mutex = t <=> Holding(t))
    /\ [](\A t \in Callers : Waiting(t) => (mutex = "free" \/ \E u \in Callers : mutex = u /\ Holding(u)))
    /\ \A t \in Callers : (caller[t].pc = "lock_store") ~> (caller[t].pc = "idle")
    /\ \A t \in Callers : (caller[t].pc = "lock_read") ~> (caller[t].pc \in {"idle", "fetch"})

\* C36 witness: one caller reads the cache under the mutex while the fetch
\* of the other is in flight.
C36_Witness ==
    /\ caller["a"].pc = "fetch"
    /\ caller["b"].pc = "read"
    /\ mutex = "b"

\* the last step ended a get(round) in which chain_info() had fetched a chain
\* info that the pinned ChainVerification rejects
GetFetchedRejectedInfo == last.op = "get" /\ FetchedInfoRejected

\* the server never returns a chain info the client's ChainVerification accepts
ServerAlwaysRejected ==
    /\ server.mode = "fixed"
    /\ ~ChainOptions_verify(options, server.info)

\* C37: get(round) obtains the chain info even with beacon verification
\* disabled: when the pinned ChainVerification rejects the server's chain
\* info, get(round) fails with InvalidChainInfo whatever is_beacon_verification
\* is, and a client whose server's chain info fails the pinned check never
\* returns a beacon.
C37_PinnedCheckWithoutVerification ==
    /\ GetFetchedRejectedInfo => last.ret = Err("InvalidChainInfo")
    /\ (ServerAlwaysRejected /\ last.op \in {"get", "latest"}) => last.ret.kind # "Ok"

\* C37 witness: with beacon verification disabled, get received a well-formed
\* beacon, then a chain info with another hash than the pinned one, and failed.
C37_Witness ==
    /\ GetFetchedRejectedInfo
    /\ ~options.is_beacon_verification
    /\ last.beacon # NoBeacon
    /\ ServerAlwaysRejected
    /\ last.ret = Err("InvalidChainInfo")

(***************************************************************************)
(* dee's configuration (dee/src/config.rs), the remote commands            *)
(* (dee/src/cmd/remote.rs) and main (dee/src/main.rs): one run of dee      *)
(* after the other on the same configuration file.  A Local is its         *)
(* upstream (NoName for None) and its chains, a map from the names to      *)
(* their entries (NoEntry where the HashMap has no key).                   *)
(***************************************************************************)
MaxRuns == 4

Names == {"a", "b", "c"}

NoName == ""

Urls == {"u1", "u2"}

NoEntry == [url |-> "", info |-> NoInfo]

ConfigChain_new(url, info) == [url |-> url, info |-> info]

Local(upstream, chains) == [upstream |-> upstream, chains |-> chains]

\* Local::default
Local_default == Local(NoName, [n \in Names |-> NoEntry])

\* Local::chain
Local_chain(cfg, name) == cfg.chains[name]

HasChain(cfg, name) == name \in Names /\ cfg.chains[name] # NoEntry

\* HashMap::len
Chains_len(cfg) == Cardinality({n \in Names : cfg.chains[n] # NoEntry})

\* a Result<()> of a method of Local, with the Local it leaves
CfgResult(kind, cfg) == [kind |-> kind, cfg |-> cfg]

\* Local::set_upstream
Local_set_upstream(cfg, upstream) ==
    IF HasChain(cfg, upstream)
    THEN CfgResult("Ok", [cfg EXCEPT !.upstream = upstream])
    ELSE CfgResult("Err", cfg)

\* Local::add_chain
Local_add_chain(cfg, name, config_chain) ==
    LET inserted == [cfg EXCEPT !.chains[name] = config_chain]
    IN  IF Chains_len(inserted) = 1 THEN Local_set_upstream(inserted, name)
        ELSE CfgResult("Ok", inserted)

\* Local::remove_chain
Local_remove_chain(cfg, name) == CfgResult("Ok", [cfg EXCEPT !.chains[name] = NoEntry])

\* Local::rename_chain
Local_rename_chain(cfg, old, new) ==
    IF ~HasChain(cfg, old) THEN CfgResult("Err", cfg)
    ELSE CfgResult("Ok", [[cfg EXCEPT !.chains[old] = NoEntry]
                               EXCEPT !.chains[new] = cfg.chains[old]])

\* Local::set_url_chain
Local_set_url_chain(cfg, name, url) ==
    IF ~HasChain(cfg, name) THEN CfgResult("Err", cfg)
    ELSE CfgResult("Ok", [cfg EXCEPT !.chains[name].url = url])

\* Local::set_upstream_and_chain: unwrap aborts on a -u that names no remote
\* and on an upstream that names none
Local_set_upstream_and_chain(cfg, set_upstream) ==
    LET set == Local_set_upstream(cfg, set_upstream)
        chain == IF set_upstream # NoName THEN set_upstream ELSE cfg.upstream
    IN  IF set_upstream # NoName /\ set.kind # "Ok" THEN CfgResult("Panic", cfg)
        ELSE LET after == IF set_upstream # NoName THEN set.cfg ELSE cfg
             IN  IF chain = NoName THEN CfgResult("Err", after)
                 ELSE IF ~HasChain(after, chain) THEN CfgResult("Panic", after)
                 ELSE CfgResult("Ok", after)

\* remote::add; fetched is what chain_info() of the remote's client returned
remote_add(cfg, name, url, fetched) ==
    IF HasChain(cfg, name) THEN CfgResult("Err", cfg)
    ELSE IF fetched = NoInfo THEN CfgResult("Err", cfg)
    ELSE Local_add_chain(cfg, name, ConfigChain_new(url, fetched))

\* remote::remove
remote_remove(cfg, name) ==
    IF ~HasChain(cfg, name) THEN CfgResult("Err", cfg)
    ELSE Local_remove_chain(cfg, name)

\* a variant of rename that leaves the upstream as it is
remote_rename_keeping_upstream(cfg, old, new) ==
    IF ~HasChain(cfg, old) THEN CfgResult("Err", cfg)
    ELSE IF HasChain(cfg, new) THEN CfgResult("Err", cfg)
    ELSE Local_rename_chain(cfg, old, new)

\* remote::rename
remote_rename(cfg, old, new) ==
    IF ~HasChain(cfg, old) THEN CfgResult("Err", cfg)
    ELSE IF HasChain(cfg, new) THEN CfgResult("Err", cfg)
    ELSE LET renamed == Local_rename_chain(cfg, old, new)
         IN  IF renamed.kind # "Ok" THEN renamed
             ELSE IF renamed.cfg.upstream = old THEN Local_set_upstream(renamed.cfg, new)
             ELSE renamed

\* remote::set_url
remote_set_url(cfg, name, url) ==
    IF ~HasChain(cfg, name) THEN CfgResult("Err", cfg)
    ELSE Local_set_url_chain(cfg, name, url)

\* rand and crypt in main: the chain is selected, with -u if given, and the
\* command runs; ok is whether it returned Ok.  main unwraps the selection.
run_on_chain(cfg, set_upstream, ok) ==
    LET selected == Local_set_upstream_and_chain(cfg, set_upstream)
    IN  IF selected.kind # "Ok" THEN CfgResult("Panic", selected.cfg)
        ELSE CfgResult(IF ok THEN "Ok" ELSE "Err", selected.cfg)

\* a variant of main that stores the configuration whatever the command returned
main_stores_always(result) == TRUE

\* main's match on the output: cfg.store() in the Ok arm only
main_stores(result) == result.kind = "Ok"

ExitCode(result) ==
    CASE result.kind = "Ok" -> 0
      [] result.kind = "Err" -> 1
      [] OTHER -> 101

RemoteCommands ==
    [name : {"remote add"}, remote : Names, url : Urls, fetched : {InfoA, InfoB, NoInfo}]
        \cup [name : {"remote remove"}, remote : Names]
        \cup [name : {"remote rename"}, old : Names, new : Names]
        \cup [name : {"remote set-url"}, remote : Names, url : Urls]

RunCommands == [name : {"rand", "crypt"}, set_upstream : Names \cup {NoName}, ok : BOOLEAN]

ConfigInit ==
    /\ ClientIdle
    /\ VerifierIdle
    /\ PureIdle
    /\ reader = NoValue
    /\ mutex = "free"
    /\ cmd = [name |-> "", runs |-> 0]
    /\ proc = [exit_code |-> 0, cfg |-> Local_default]
    /\ config = Local_default

\* one run of dee: Local::load, the command c, and main's match
Run(c, result) ==
    /\ cmd.runs < MaxRuns
    /\ cmd' = [name |-> c.name, runs |-> cmd.runs + 1, args |-> c]
    /\ proc' = [exit_code |-> ExitCode(result), cfg |-> result.cfg]
    /\ config' = IF main_stores(result) THEN result.cfg ELSE config
    /\ UNCHANGED <<reader, mutex, cvars, vvars, pvars>>

RemoteAdd ==
    /\ \E c \in RemoteCommands :
          c.name = "remote add" /\ Run(c, remote_add(config, c.remote, c.url, c.fetched))

RemoteRemove ==
    /\ \E c \in RemoteCommands :
          c.name = "remote remove" /\ Run(c, remote_remove(config, c.remote))

RemoteRename ==
    /\ \E c \in RemoteCommands :
          c.name = "remote rename" /\ Run(c, remote_rename(config, c.old, c.new))

RemoteSetUrl ==
    /\ \E c \in RemoteCommands :
          c.name = "remote set-url" /\ Run(c, remote_set_url(config, c.remote, c.url))

RunOnChain ==
    /\ \E c \in RunCommands : Run(c, run_on_chain(config, c.set_upstream, c.ok))

ConfigNext == RemoteAdd \/ RemoteRemove \/ RemoteRename \/ RemoteSetUrl \/ RunOnChain

ConfigSpec == ConfigInit /\ [][ConfigNext]_vars

\* C38: after any sequence of remote add, remove, rename, set-url and
\* set-upstream operations the configuration's upstream is absent or the name
\* of a remote that exists in chains.
C38_UpstreamNamesARemote ==
    config.upstream # NoName => HasChain(config, config.upstream)


\* the run that has just ended failed: main printed the error and exited with 1
RunFailed == cmd.runs > 0 /\ proc.exit_code = 1

\* C39: the configuration is stored only after a command returned success:
\* a run that ends with exit code 1 leaves the stored remotes and upstream
\* exactly as they were, whatever the command had changed in memory.
C39_FailureStoresNothing ==
    [][(cmd'.runs > cmd.runs /\ proc'.exit_code = 1) => config' = config]_vars

\* C39 witness: a rand or crypt with -u failed after the upstream was changed
\* in memory, and the stored upstream is still the old one.
C39_Witness ==
    /\ RunFailed
    /\ cmd.name \in {"rand", "crypt"}
    /\ cmd.args.set_upstream # NoName
    /\ proc.cfg.upstream = cmd.args.set_upstream
    /\ config.upstream # NoName
    /\ config.upstream # proc.cfg.upstream

\* what remote rename OLD NEW makes of the stored configuration
RenameEffect(before, after, exit_code, old, new) ==
    IF ~HasChain(before, old) \/ HasChain(before, new)
    THEN exit_code = 1 /\ after = before
    ELSE /\ exit_code = 0
         /\ after.chains[new] = before.chains[old]
         /\ after.chains[old] = NoEntry
         /\ \A n \in Names \ {old, new} : after.chains[n] = before.chains[n]
         /\ after.upstream = IF before.upstream = old THEN new ELSE before.upstream

====
